---- MODULE Spec2Model ----
(***************************************************************************)
(* The SI-unit normalizer of src/SIParser.ts as a state machine.           *)
(*                                                                         *)
(* A JavaScript string is a sequence of one-character strings, so that     *)
(* "50 kPa" is <<"5","0"," ","k","P","a">>.  A JavaScript number is an     *)
(* IEEE-754 binary64 value, kept as sign, 53-bit significand and binary    *)
(* exponent; the significand is a sequence of decimal digits because it    *)
(* does not fit the integers of the model checker.  Exponent vectors are   *)
(* functions from unit keys (strings of the program, e.g. <<"1","0">>) to  *)
(* integers; a key is present exactly when it is in the DOMAIN.            *)
(***************************************************************************)
EXTENDS Integers, Sequences, FiniteSets, TLC

VARIABLES
  pc,         \* per caller: "idle", "called" (normalizeUnits entered), "done"
  arguments,  \* per caller: the string passed to normalizeUnits
  frame,      \* per caller: the locals the call leaves (expressionResult of
              \* _normalizeUnits, normalizeUnitsResult of normalizeUnits)
  outcome     \* per caller: what the call returned or threw

vars == <<pc, arguments, frame, outcome>>

(***************************************************************************)
(* const x = value; rest: rest with x bound to the value, which is         *)
(* evaluated once.                                                         *)
(***************************************************************************)

Bind(value, rest(_)) == rest(value)

Bind2(value1, value2, rest(_, _)) == rest(value1, value2)

(***************************************************************************)
(* Strings                                                                 *)
(***************************************************************************)

\* String.prototype.substring(i): the characters from index i (0-based) on.
Substring(s, i) == SubSeq(s, i + 1, Len(s))

\* String.prototype.substring(0, i).
Prefix(s, i) == SubSeq(s, 1, i)

\* string.indexOf(p) === 0
StartsWith(s, p) == Len(p) <= Len(s) /\ SubSeq(s, 1, Len(p)) = p

\* string.charAt(i): the character at index i (0-based), '' past the end.
CharAt(s, i) == IF i + 1 <= Len(s) THEN <<s[i + 1]>> ELSE <<>>

RECURSIVE Concat(_)
\* The concatenation of a sequence of strings (Array.prototype.join('')).
Concat(ss) == IF ss = <<>> THEN <<>> ELSE Head(ss) \o Concat(Tail(ss))

RECURSIVE Join(_, _)
\* Array.prototype.join(sep)
Join(ss, sep) ==
  IF ss = <<>> THEN <<>>
  ELSE IF Len(ss) = 1 THEN ss[1]
  ELSE ss[1] \o sep \o Join(Tail(ss), sep)

Digits == <<"0", "1", "2", "3", "4", "5", "6", "7", "8", "9">>

IsDigit(c) == \E i \in 1..10 : Digits[i] = c

DigitValue(c) == (CHOOSE i \in 1..10 : Digits[i] = c) - 1

DigitChar(d) == Digits[d + 1]

(***************************************************************************)
(* Natural numbers of any size, as sequences of decimal digit values, most *)
(* significant first, <<>> for zero.  They carry the significands of the   *)
(* binary64 arithmetic below.  The arithmetic works on groups of four      *)
(* digits at a time.                                                       *)
(***************************************************************************)

\* a without its leading zeros
StripZeros(a) ==
  IF \A i \in 1..Len(a) : a[i] = 0 THEN <<>>
  ELSE SubSeq(a, CHOOSE i \in 1..Len(a) : a[i] # 0 /\ \A j \in 1..(i - 1) : a[j] = 0, Len(a))

\* a without its trailing zeros
StripTrailingZeros(a) ==
  IF \A i \in 1..Len(a) : a[i] = 0 THEN <<>>
  ELSE SubSeq(a, 1, CHOOSE i \in 1..Len(a) : a[i] # 0 /\ \A j \in (i + 1)..Len(a) : a[j] = 0)

Zeros(n) == [i \in 1..n |-> 0]

Pad(a, n) == Zeros(n - Len(a)) \o a

\* a with leading zeros up to a multiple of four digits
PadGroups(a) == Pad(a, 4 * ((Len(a) + 3) \div 4))

\* The value of the four digits of a that end at index i.
Group(a, i) == a[i - 3] * 1000 + a[i - 2] * 100 + a[i - 1] * 10 + a[i]

\* The four digits of g < 10000.
GroupDigits(g) == <<g \div 1000, (g \div 100) % 10, (g \div 10) % 10, g % 10>>

\* -1, 0, 1 as a < b, a = b, a > b (both without leading zeros).
BigCmp(a, b) ==
  IF Len(a) < Len(b) THEN -1
  ELSE IF Len(a) > Len(b) THEN 1
  ELSE IF a = b THEN 0
  ELSE LET i == CHOOSE i \in 1..Len(a) : a[i] # b[i] /\ \A j \in 1..(i - 1) : a[j] = b[j]
       IN  IF a[i] < b[i] THEN -1 ELSE 1

RECURSIVE NatToBig(_)
NatToBig(n) == IF n = 0 THEN <<>> ELSE Append(NatToBig(n \div 10), n % 10)

RECURSIVE MulSmallFrom(_, _, _, _)
\* Digits 1..i of a times k, plus carry (i a multiple of four).
MulSmallFrom(a, k, i, carry) ==
  IF i = 0 THEN NatToBig(carry)
  ELSE LET t == Group(a, i) * k + carry
       IN  MulSmallFrom(a, k, i - 4, t \div 10000) \o GroupDigits(t % 10000)

\* a * k for a small natural k (k <= 2^17)
BigMulSmall(a, k) ==
  Bind(PadGroups(a), LAMBDA p : StripZeros(MulSmallFrom(p, k, Len(p), 0)))

RECURSIVE AddFrom(_, _, _, _)
\* Digits 1..i of a plus those of b, plus carry (same length, i a multiple of four).
AddFrom(a, b, i, carry) ==
  IF i = 0 THEN NatToBig(carry)
  ELSE LET t == Group(a, i) + Group(b, i) + carry
       IN  AddFrom(a, b, i - 4, t \div 10000) \o GroupDigits(t % 10000)

SameLength(a, b) ==
  LET n == IF Len(a) > Len(b) THEN Len(a) ELSE Len(b)
      m == 4 * ((n + 3) \div 4)
  IN  [a |-> Pad(a, m), b |-> Pad(b, m), n |-> m]

BigAdd(a, b) ==
  Bind(SameLength(a, b), LAMBDA p : StripZeros(AddFrom(p.a, p.b, p.n, 0)))

RECURSIVE SubFrom(_, _, _, _)
SubFrom(a, b, i, borrow) ==
  IF i = 0 THEN <<>>
  ELSE LET t == Group(a, i) - Group(b, i) - borrow
       IN  SubFrom(a, b, i - 4, IF t < 0 THEN 1 ELSE 0)
             \o GroupDigits(IF t < 0 THEN t + 10000 ELSE t)

\* a - b for a >= b.
BigSub(a, b) ==
  Bind(SameLength(a, b), LAMBDA p : StripZeros(SubFrom(p.a, p.b, p.n, 0)))

RECURSIVE HalfFrom(_, _, _)
\* floor of (rem, digits i-3.. of a) / 2 (Len(a) a multiple of four)
HalfFrom(a, i, rem) ==
  IF i > Len(a) THEN <<>>
  ELSE LET t == rem * 10000 + Group(a, i)
       IN  GroupDigits(t \div 2) \o HalfFrom(a, i + 4, t % 2)

\* floor(a / 2)
BigHalf(a) == StripZeros(HalfFrom(PadGroups(a), 4, 0))

BigOdd(a) == a # <<>> /\ a[Len(a)] % 2 = 1

BigOne == <<1>>

\* 2^52 and 2^53: a binary64 significand M satisfies Two52 <= M < Two53.
Two52 == <<4, 5, 0, 3, 5, 9, 9, 6, 2, 7, 3, 7, 0, 4, 9, 6>>
Two53 == <<9, 0, 0, 7, 1, 9, 9, 2, 5, 4, 7, 4, 0, 9, 9, 2>>

(***************************************************************************)
(* JavaScript numbers: IEEE-754 binary64.  A finite nonzero number is      *)
(* (-1)^neg * M * 2^(-s) with Two52 <= M < Two53; zero has M = <<>> (the   *)
(* sign of zero is not kept: no operation of the program tells -0 from 0,  *)
(* and both print as "0").  Subnormals and infinities are outside the      *)
(* magnitudes the bounded inputs reach.                                    *)
(***************************************************************************)

NaN == [nan |-> TRUE, neg |-> FALSE, M |-> <<>>, s |-> 0]

Zero == [nan |-> FALSE, neg |-> FALSE, M |-> <<>>, s |-> 0]

\* The last k digits of T, as k digits.
LowDigits(T, k) == IF Len(T) >= k THEN SubSeq(T, Len(T) - k + 1, Len(T)) ELSE Pad(T, k)

\* floor(T / 10^k)
HighDigits(T, k) == Prefix(T, Len(T) - k)

\* Round-half-even of q + (r / 10^Len(r)): whether to round q up.
RoundUpDecimal(q, r) ==
  /\ r # <<>>
  /\ \/ r[1] > 5
     \/ /\ r[1] = 5
        /\ \/ \E i \in 2..Len(r) : r[i] # 0
           \/ BigOdd(q)

RECURSIVE ScaleUp(_, _, _)
\* The T' = T * 2^j and s' = s + j with Two52 <= floor(T' / 10^k) < Two53,
\* for floor(T / 10^k) < Two53.
ScaleUp(T, k, s) ==
  Bind2(BigMulSmall(T, 131072), BigMulSmall(T, 32), LAMBDA T17, T5 :
    IF BigCmp(HighDigits(T17, k), Two53) < 0 THEN ScaleUp(T17, k, s + 17)
    ELSE IF BigCmp(HighDigits(T5, k), Two53) < 0 THEN ScaleUp(T5, k, s + 5)
    ELSE IF BigCmp(HighDigits(T, k), Two52) < 0 THEN ScaleUp(BigMulSmall(T, 2), k, s + 1)
    ELSE [T |-> T, s |-> s])

RECURSIVE HalveDown(_, _, _, _)
\* S / 2^j rounded half-even to a significand below Two53, for S >= Two52:
\* guard is the last bit shifted out, sticky whether any bit before it was set.
HalveDown(S, s, guard, sticky) ==
  IF BigCmp(S, Two53) >= 0
  THEN HalveDown(BigHalf(S), s - 1, BigOdd(S), sticky \/ guard)
  ELSE Bind(IF guard /\ (sticky \/ BigOdd(S)) THEN BigAdd(S, BigOne) ELSE S, LAMBDA M :
         IF M = Two53 THEN [T |-> Two52, s |-> s - 1] ELSE [T |-> M, s |-> s])

\* The binary64 nearest to S * 2^(-s), S a nonzero natural (ties to even).
RoundBinary(neg, S, s) ==
  Bind(IF BigCmp(S, Two52) < 0 THEN ScaleUp(S, 0, s) ELSE HalveDown(S, s, FALSE, FALSE),
       LAMBDA u : [nan |-> FALSE, neg |-> neg, M |-> u.T, s |-> u.s])

\* The binary64 nearest to N / 10^k (ties to even), N a natural with
\* N / 10^k < 2^53: what parseFloat and the number literals of the program
\* yield for a decimal numeral.
DecimalToNumber(neg, N, k) ==
  Bind(StripZeros(N), LAMBDA n :
    IF n = <<>> THEN Zero
    ELSE IF k = 0 THEN RoundBinary(neg, n, 0)
    ELSE Bind(ScaleUp(n, k, 0), LAMBDA u :
         Bind(HighDigits(u.T, k), LAMBDA q :
         Bind(IF RoundUpDecimal(q, LowDigits(u.T, k)) THEN BigAdd(q, BigOne) ELSE q,
              LAMBDA M :
           IF M = Two53
           THEN [nan |-> FALSE, neg |-> neg, M |-> Two52, s |-> u.s - 1]
           ELSE [nan |-> FALSE, neg |-> neg, M |-> M, s |-> u.s]))))

\* An integer of the program as a number (exact).
NumberOfInt(n) == DecimalToNumber(n < 0, NatToBig(IF n < 0 THEN -n ELSE n), 0)

\* Unary minus.
Negate(x) == IF x.nan \/ x.M = <<>> THEN x ELSE [x EXCEPT !.neg = ~x.neg]

RECURSIVE BigShiftLeft(_, _)
\* a * 2^d
BigShiftLeft(a, d) ==
  IF d = 0 \/ a = <<>> THEN a
  ELSE Bind(IF d >= 17 THEN 17 ELSE 1, LAMBDA j :
         BigShiftLeft(BigMulSmall(a, 2 ^ j), d - j))

\* x + y in binary64: the exact sum, rounded to nearest, ties to even.
NumberAdd(x, y) ==
  IF x.nan \/ y.nan THEN NaN
  ELSE IF x.M = <<>> THEN y
  ELSE IF y.M = <<>> THEN x
  ELSE Bind(IF x.s > y.s THEN x.s ELSE y.s, LAMBDA s :
       Bind2(BigShiftLeft(x.M, s - x.s), BigShiftLeft(y.M, s - y.s), LAMBDA X, Y :
       Bind(IF x.neg = y.neg THEN [neg |-> x.neg, S |-> BigAdd(X, Y)]
            ELSE IF BigCmp(X, Y) >= 0 THEN [neg |-> x.neg, S |-> BigSub(X, Y)]
            ELSE [neg |-> y.neg, S |-> BigSub(Y, X)],
            LAMBDA exact :
         IF exact.S = <<>> THEN Zero ELSE RoundBinary(exact.neg, exact.S, s))))

(***************************************************************************)
(* Number::toString (ECMA-262 6.1.6.1.20), which JSON.stringify and string *)
(* concatenation apply to a number: the shortest decimal that reads back   *)
(* as the same binary64, the nearest such if there are several.            *)
(***************************************************************************)

RECURSIVE BigMulPow5(_, _)
\* a * 5^n
BigMulPow5(a, n) ==
  IF n = 0 \/ a = <<>> THEN a
  ELSE Bind(IF n >= 7 THEN 7 ELSE 1, LAMBDA j :
         BigMulPow5(BigMulSmall(a, 5 ^ j), n - j))

\* The exact decimal expansion of M * 2^(-s): digits E and the number F of
\* them after the decimal point (M * 2^(-s) = M * 5^s / 10^s).
ExactDecimal(x) ==
  IF x.s >= 0 THEN [E |-> BigMulPow5(x.M, x.s), F |-> x.s]
  ELSE [E |-> BigShiftLeft(x.M, -x.s), F |-> 0]

\* E rounded (half-even) to its n leading digits: the digits C and the
\* number r of digits dropped, so that the rounded value is C * 10^r.
RoundDigits(E, n) ==
  IF n >= Len(E) THEN [C |-> E, r |-> 0]
  ELSE Bind(Prefix(E, n), LAMBDA q :
         [C |-> IF RoundUpDecimal(q, Substring(E, n)) THEN BigAdd(q, BigOne) ELSE q,
          r |-> Len(E) - n])

RECURSIVE ShortestFrom(_, _, _)
\* The shortest decimal, of n digits or more, that reads back as x: its
\* digits ds (no trailing zeros) and the position n of the decimal point,
\* the value being 0.ds * 10^n.
ShortestFrom(x, ed, n) ==
  Bind(RoundDigits(ed.E, n), LAMBDA c :
  Bind(c.r - ed.F, LAMBDA e10 :
  Bind(DecimalToNumber(x.neg,
                       c.C \o Zeros(IF e10 >= 0 THEN e10 ELSE 0),
                       IF e10 >= 0 THEN 0 ELSE -e10),
       LAMBDA back :
    IF n >= Len(ed.E) \/ back = x
    THEN [ds |-> StripTrailingZeros(c.C), n |-> Len(c.C) + e10]
    ELSE ShortestFrom(x, ed, n + 1))))

DigitString(ds) == [i \in 1..Len(ds) |-> DigitChar(ds[i])]

\* An integer of the program as a string ('^' + exponents[unit]).
IntToString(i) ==
  IF i = 0 THEN <<"0">>
  ELSE (IF i < 0 THEN <<"-">> ELSE <<>>) \o DigitString(NatToBig(IF i < 0 THEN -i ELSE i))

\* j zeros
ZeroString(j) == [i \in 1..j |-> "0"]

NumberToString(x) ==
  IF x.nan THEN <<"N", "a", "N">>
  ELSE IF x.M = <<>> THEN <<"0">>
  ELSE Bind(ShortestFrom(x, ExactDecimal(x), 1), LAMBDA sh :
       Bind2(DigitString(sh.ds), sh.n, LAMBDA ds, n :
       Bind(Len(ds), LAMBDA k :
         (IF x.neg THEN <<"-">> ELSE <<>>) \o
         (IF k <= n /\ n <= 21 THEN ds \o ZeroString(n - k)
          ELSE IF 0 < n /\ n <= 21 THEN Prefix(ds, n) \o <<".">> \o Substring(ds, n)
          ELSE IF -6 < n /\ n <= 0 THEN <<"0", ".">> \o ZeroString(-n) \o ds
          ELSE (IF k = 1 THEN ds ELSE <<ds[1], ".">> \o Substring(ds, 1))
                 \o (IF n - 1 < 0 THEN <<"e", "-">> ELSE <<"e", "+">>)
                 \o IntToString(IF n - 1 < 0 THEN 1 - n ELSE n - 1)))))

\* JSON.stringify of a number: a NaN is serialised as null.
JSONStringify(x) == IF x.nan THEN <<"n", "u", "l", "l">> ELSE NumberToString(x)

(***************************************************************************)
(* The tables of _parseBase, in the order of their keys.                   *)
(***************************************************************************)

\* An exponent vector with no key (the exponents: {} of rad and sr).
NoExponents == [k \in {} |-> 0]

\* const prefixes: each prefix with its power of ten, in key order.
prefixes == <<
  [prefix |-> <<"Y">>, power |-> 24],
  [prefix |-> <<"Z">>, power |-> 21],
  [prefix |-> <<"E">>, power |-> 18],
  [prefix |-> <<"P">>, power |-> 15],
  [prefix |-> <<"T">>, power |-> 12],
  [prefix |-> <<"G">>, power |-> 9],
  [prefix |-> <<"M">>, power |-> 6],
  [prefix |-> <<"k">>, power |-> 3],
  [prefix |-> <<"h">>, power |-> 2],
  [prefix |-> <<"d", "a">>, power |-> 1],
  [prefix |-> <<>>, power |-> 0],
  [prefix |-> <<"d">>, power |-> -1],
  [prefix |-> <<"c">>, power |-> -2],
  [prefix |-> <<"m">>, power |-> -3],
  [prefix |-> <<"μ">>, power |-> -6],
  [prefix |-> <<"n">>, power |-> -9],
  [prefix |-> <<"p">>, power |-> -12],
  [prefix |-> <<"f">>, power |-> -15],
  [prefix |-> <<"a">>, power |-> -18],
  [prefix |-> <<"z">>, power |-> -21],
  [prefix |-> <<"y">>, power |-> -24] >>

baseUnits == << <<"m">>, <<"g">>, <<"s">>, <<"A">>, <<"K">>, <<"m", "o", "l">>, <<"c", "d">> >>

\* A conversion is the sequence of the functions it composes, outermost
\* first: <<>> is (magnitude) => magnitude, <<"+273.15">> the conversion of
\* the degree Celsius.
Identity == <<>>

Celsius == <<"+273.15">>

\* const derivedUnits: each derived unit with its exponents and conversion
\* (a unit without one gets the identity, line 760), in key order.
derivedUnits == <<
  [unit |-> <<"L">>,
   exponents |-> (<<"1", "0">> :> -3) @@ (<<"m">> :> 3),
   conversion |-> Identity],
  [unit |-> <<"r", "a", "d">>,
   exponents |-> NoExponents,
   conversion |-> Identity],
  [unit |-> <<"s", "r">>,
   exponents |-> NoExponents,
   conversion |-> Identity],
  [unit |-> <<"H", "z">>,
   exponents |-> (<<"s">> :> -1),
   conversion |-> Identity],
  [unit |-> <<"N">>,
   exponents |-> (<<"1", "0">> :> 3) @@ (<<"g">> :> 1) @@ (<<"m">> :> 1) @@ (<<"s">> :> -2),
   conversion |-> Identity],
  [unit |-> <<"P", "a">>,
   exponents |-> (<<"1", "0">> :> 3) @@ (<<"g">> :> 1) @@ (<<"m">> :> -1) @@ (<<"s">> :> -2),
   conversion |-> Identity],
  [unit |-> <<"b", "a", "r">>,
   exponents |-> (<<"1", "0">> :> 8) @@ (<<"g">> :> 1) @@ (<<"m">> :> -1) @@ (<<"s">> :> -2),
   conversion |-> Identity],
  [unit |-> <<"J">>,
   exponents |-> (<<"1", "0">> :> 3) @@ (<<"g">> :> 1) @@ (<<"m">> :> 2) @@ (<<"s">> :> -2),
   conversion |-> Identity],
  [unit |-> <<"W">>,
   exponents |-> (<<"1", "0">> :> 3) @@ (<<"g">> :> 1) @@ (<<"m">> :> 2) @@ (<<"s">> :> -3),
   conversion |-> Identity],
  [unit |-> <<"C">>,
   exponents |-> (<<"s">> :> 1) @@ (<<"A">> :> 1),
   conversion |-> Identity],
  [unit |-> <<"V">>,
   exponents |-> (<<"1", "0">> :> 3) @@ (<<"g">> :> 1) @@ (<<"m">> :> 2) @@ (<<"s">> :> -3) @@ (<<"A">> :> -1),
   conversion |-> Identity],
  [unit |-> <<"F">>,
   exponents |-> (<<"1", "0">> :> -3) @@ (<<"g">> :> -1) @@ (<<"m">> :> -2) @@ (<<"s">> :> 4) @@ (<<"A">> :> 2),
   conversion |-> Identity],
  [unit |-> <<"Ω">>,
   exponents |-> (<<"1", "0">> :> 3) @@ (<<"g">> :> 1) @@ (<<"m">> :> 2) @@ (<<"s">> :> -3) @@ (<<"A">> :> -2),
   conversion |-> Identity],
  [unit |-> <<"S">>,
   exponents |-> (<<"1", "0">> :> -3) @@ (<<"g">> :> -1) @@ (<<"m">> :> -2) @@ (<<"s">> :> 3) @@ (<<"A">> :> 2),
   conversion |-> Identity],
  [unit |-> <<"W", "b">>,
   exponents |-> (<<"1", "0">> :> 3) @@ (<<"g">> :> 1) @@ (<<"m">> :> 2) @@ (<<"s">> :> -2) @@ (<<"A">> :> -1),
   conversion |-> Identity],
  [unit |-> <<"T">>,
   exponents |-> (<<"1", "0">> :> 3) @@ (<<"g">> :> 1) @@ (<<"s">> :> -2) @@ (<<"A">> :> -1),
   conversion |-> Identity],
  [unit |-> <<"H">>,
   exponents |-> (<<"1", "0">> :> 3) @@ (<<"g">> :> 1) @@ (<<"m">> :> 2) @@ (<<"s">> :> -2) @@ (<<"A">> :> -2),
   conversion |-> Identity],
  [unit |-> <<"°", "C">>,
   exponents |-> (<<"K">> :> 1),
   conversion |-> Celsius],
  [unit |-> <<"l", "m">>,
   exponents |-> (<<"c", "d">> :> 1),
   conversion |-> Identity],
  [unit |-> <<"l", "x">>,
   exponents |-> (<<"m">> :> -2) @@ (<<"c", "d">> :> 1),
   conversion |-> Identity],
  [unit |-> <<"B", "q">>,
   exponents |-> (<<"s">> :> -1),
   conversion |-> Identity],
  [unit |-> <<"G", "y">>,
   exponents |-> (<<"m">> :> 2) @@ (<<"s">> :> -2),
   conversion |-> Identity],
  [unit |-> <<"S", "v">>,
   exponents |-> (<<"m">> :> 2) @@ (<<"s">> :> -2),
   conversion |-> Identity],
  [unit |-> <<"k", "a", "t">>,
   exponents |-> (<<"m", "o", "l">> :> 1) @@ (<<"s">> :> -1),
   conversion |-> Identity] >>

perUnits == << <<"%">>, <<"p", "p", "m">>, <<"p", "p", "b">>, <<"p", "p", "t">>, <<"p", "p", "q">> >>

\* No unit kept from taking a prefix.
noUnits == <<>>

prefixlessUnits == perUnits \o << <<"°", "C">> >>

\* Object.keys(derivedUnits)
derivedUnitKeys ==
  Bind(derivedUnits, LAMBDA table : [i \in 1..Len(table) |-> table[i].unit])

\* const units
units == baseUnits \o perUnits \o derivedUnitKeys

\* array.indexOf(x) !== -1
Includes(array, x) == \E i \in 1..Len(array) : array[i] = x

\* A prefix table read without the power of the prefix.
PrefixPowerDropped(prefix) == 0

\* prefixes[prefix]
PrefixPower(prefix) ==
  Bind(prefixes, LAMBDA table :
    table[CHOOSE i \in 1..Len(table) : table[i].prefix = prefix].power)

\* derivedUnits[unit]
DerivedUnit(unit) ==
  Bind(derivedUnits, LAMBDA table :
    table[CHOOSE i \in 1..Len(table) : table[i].unit = unit])

\* The key '10' of an exponent vector.
K10 == <<"1", "0">>

\* The conversion f applied to the number x: f[1](f[2](...(x))).
RECURSIVE ApplyConversion(_, _)
ApplyConversion(f, x) ==
  IF f = <<>> THEN x
  ELSE Bind(ApplyConversion(Tail(f), x), LAMBDA y :
         IF Head(f) = "+273.15"
         THEN NumberAdd(y, DecimalToNumber(FALSE, <<2, 7, 3, 1, 5>>, 2))
         ELSE y)

(***************************************************************************)
(* The grammar rules.  Every rule maps the remaining input to a parse      *)
(* outcome [consumed, rest, success, result]; a failure has no result.     *)
(***************************************************************************)

\* A failure that reports nothing consumed.
failureResultConsumingNothing(string, consumed) ==
  [consumed |-> <<>>, rest |-> string, success |-> FALSE]

\* { rest: string, success: false } with consumed set.
failureResult(string, consumed) ==
  [consumed |-> consumed, rest |-> string, success |-> FALSE]

\* An exception leaving a rule: a read of a property of undefined.
TypeError == [threw |-> "TypeError"]

IsThrown(r) == "threw" \in DOMAIN r

_parseChar(string, char) ==
  IF <<char>> = CharAt(string, 0)
  THEN [consumed |-> <<char>>, rest |-> Substring(string, 1), success |-> TRUE]
  ELSE [consumed |-> <<>>, rest |-> string, success |-> FALSE]

\* The i the loop of _parseDigits ends with: the length of the leading run of digits.
DigitRun(string) ==
  IF \A j \in 1..Len(string) : IsDigit(string[j]) THEN Len(string)
  ELSE (CHOOSE j \in 1..Len(string) :
          ~IsDigit(string[j]) /\ \A l \in 1..(j - 1) : IsDigit(string[l])) - 1

RECURSIVE parseInt(_)
\* parseInt of a string of digits
parseInt(ds) ==
  IF ds = <<>> THEN 0
  ELSE 10 * parseInt(Prefix(ds, Len(ds) - 1)) + DigitValue(ds[Len(ds)])

\* parseFloat of digits, '.' and digits: the number the longest numeral at
\* the start denotes, NaN if there is no digit.
parseFloat(str) ==
  Bind(DigitRun(str), LAMBDA i :
  Bind(IF CharAt(str, i) = <<".">> THEN DigitRun(Substring(str, i + 1)) ELSE 0,
       LAMBDA frac :
  Bind(Prefix(str, i) \o SubSeq(str, i + 2, i + 1 + frac), LAMBDA ds :
    IF i + frac = 0 THEN NaN
    ELSE DecimalToNumber(FALSE, [j \in 1..Len(ds) |-> DigitValue(ds[j])], frac))))

\* A _parseDigits that leaves the matched digits in the rest.
_parseDigitsKeepingRest(string) ==
  Bind(DigitRun(string), LAMBDA i :
    IF i # 0
    THEN Bind(Prefix(string, i), LAMBDA consumed :
           [consumed |-> consumed, rest |-> string,
            result |-> parseInt(consumed), success |-> TRUE])
    ELSE [consumed |-> <<>>, rest |-> string, success |-> FALSE])

_parseDigits(string) ==
  Bind(DigitRun(string), LAMBDA i :
    IF i # 0
    THEN Bind(Prefix(string, i), LAMBDA consumed :
           [consumed |-> consumed, rest |-> Substring(string, i),
            result |-> parseInt(consumed), success |-> TRUE])
    ELSE [consumed |-> <<>>, rest |-> string, success |-> FALSE])

_parseDotDigits(string) ==
  Bind(_parseChar(string, "."), LAMBDA periodResult :
    IF periodResult.success
    THEN Bind(_parseDigits(periodResult.rest), LAMBDA digitsAfterPeriodResult :
         Bind(periodResult.consumed \o digitsAfterPeriodResult.consumed,
              LAMBDA consumedAfterPeriod :
           [consumed |-> consumedAfterPeriod,
            rest |-> Substring(string, Len(consumedAfterPeriod)),
            result |-> parseFloat(consumedAfterPeriod), success |-> TRUE]))
    ELSE failureResult(string, periodResult.consumed))

RECURSIVE _parseDecimal(_)
\* The result of the digits-only production is the integer of _parseDigits,
\* here as a number.
_parseDecimal(string) ==
  Bind(_parseChar(string, "+"), LAMBDA plusResult :
    IF plusResult.success
    THEN Bind(_parseDecimal(plusResult.rest), LAMBDA decimalAfterPlusResult :
         Bind(plusResult.consumed \o decimalAfterPlusResult.consumed,
              LAMBDA consumedInclusiveAfterPlus :
           IF decimalAfterPlusResult.success
           THEN [consumed |-> consumedInclusiveAfterPlus,
                 rest |-> decimalAfterPlusResult.rest,
                 result |-> decimalAfterPlusResult.result, success |-> TRUE]
           ELSE failureResult(string, consumedInclusiveAfterPlus)))
    ELSE
    Bind(_parseChar(string, "-"), LAMBDA minusResult :
      IF minusResult.success
      THEN Bind(_parseDecimal(minusResult.rest), LAMBDA decimalAfterMinusResult :
           Bind(minusResult.consumed \o decimalAfterMinusResult.consumed,
                LAMBDA consumedInclusiveAfterMinus :
             IF decimalAfterMinusResult.success
             THEN [consumed |-> consumedInclusiveAfterMinus,
                   rest |-> decimalAfterMinusResult.rest,
                   result |-> Negate(decimalAfterMinusResult.result),
                   success |-> TRUE]
             ELSE failureResult(string, consumedInclusiveAfterMinus)))
      ELSE
      Bind(_parseDigits(string), LAMBDA digitsResult :
      Bind(_parseDotDigits(digitsResult.rest), LAMBDA dotDigitsResult :
        IF dotDigitsResult.success
        THEN Bind(digitsResult.consumed \o dotDigitsResult.consumed,
                  LAMBDA consumedAroundPeriod :
               [consumed |-> consumedAroundPeriod,
                rest |-> dotDigitsResult.rest,
                result |-> parseFloat(consumedAroundPeriod), success |-> TRUE])
        ELSE IF digitsResult.success
        THEN [digitsResult EXCEPT !.result = NumberOfInt(@)]
        ELSE digitsResult))))

RECURSIVE _parseInteger(_)
_parseInteger(string) ==
  Bind(_parseChar(string, "+"), LAMBDA plusResult :
    IF plusResult.success
    THEN Bind(_parseInteger(plusResult.rest), LAMBDA integerAfterPlusResult :
         Bind(plusResult.consumed \o integerAfterPlusResult.consumed,
              LAMBDA consumedInclusiveAfterPlus :
           IF integerAfterPlusResult.success
           THEN [consumed |-> consumedInclusiveAfterPlus,
                 rest |-> integerAfterPlusResult.rest,
                 result |-> integerAfterPlusResult.result, success |-> TRUE]
           ELSE failureResult(string, consumedInclusiveAfterPlus)))
    ELSE
    Bind(_parseChar(string, "-"), LAMBDA minusResult :
      IF minusResult.success
      THEN Bind(_parseInteger(minusResult.rest), LAMBDA integerAfterMinusResult :
           Bind(minusResult.consumed \o integerAfterMinusResult.consumed,
                LAMBDA consumedInclusiveAfterMinus :
             IF integerAfterMinusResult.success
             THEN [consumed |-> consumedInclusiveAfterMinus,
                   rest |-> integerAfterMinusResult.rest,
                   result |-> -integerAfterMinusResult.result, success |-> TRUE]
             ELSE failureResult(string, consumedInclusiveAfterMinus)))
      ELSE
      Bind(_parseDigits(string), LAMBDA digitsResult :
        IF digitsResult.success
        THEN digitsResult
        ELSE failureResult(string, digitsResult.consumed))))

\* An exponent that takes no sign.
_parseExponentUnsigned(string) ==
  Bind(_parseDigits(string), LAMBDA digitsResult :
    IF digitsResult.success
    THEN digitsResult
    ELSE failureResult(string, digitsResult.consumed))

_parseExponent(string) == _parseInteger(string)

_parseSignificand(string) == _parseDecimal(string)

_parseMagnitude(string) ==
  Bind(_parseSignificand(string), LAMBDA significandResult :
    IF significandResult.success
    THEN Bind(IF StartsWith(significandResult.rest, <<"*", "1", "0", "^">>)
              THEN <<"*", "1", "0", "^">>
              ELSE IF CharAt(significandResult.rest, 0) = <<"E">>
                      \/ CharAt(significandResult.rest, 0) = <<"e">>
              THEN CharAt(significandResult.rest, 0)
              ELSE <<>>,   \* undefined
              LAMBDA operator :
           IF operator # <<>>
           THEN Bind(_parseExponent(Substring(significandResult.rest, Len(operator))),
                     LAMBDA exponentResult :
                Bind(significandResult.consumed \o operator \o exponentResult.consumed,
                     LAMBDA consumed :
                  IF exponentResult.success
                  THEN [consumed |-> consumed,
                        rest |-> Substring(string, Len(consumed)),
                        result |-> [significand |-> significandResult.result,
                                    exponent |-> exponentResult.result],
                        success |-> TRUE]
                  ELSE failureResult(string, consumed)))
           ELSE [consumed |-> significandResult.consumed,
                 rest |-> significandResult.rest,
                 result |-> [significand |-> significandResult.result,
                             exponent |-> 0],
                 success |-> TRUE])
    ELSE failureResult(string, significandResult.consumed))

\* exponents[key] || 0
Get(exponents, key) == IF key \in DOMAIN exponents THEN exponents[key] ELSE 0

\* The candidates [prefix, unit] of one prefix: the units that take a prefix
\* and that the string starts with after the prefix.
PrefixedCandidates(string, prefix, allUnits, noPrefix) ==
  Bind(SelectSeq(allUnits,
                 LAMBDA unit : ~Includes(noPrefix, unit)
                               /\ StartsWith(string, prefix \o unit)),
       LAMBDA us : [j \in 1..Len(us) |-> [prefix |-> prefix, unit |-> us[j]]])

\* The elements of match before the sort: the prefixed candidates, prefix by
\* prefix in table order, then the candidates without a prefix.
Candidates(string) ==
  Bind2(units, prefixlessUnits, LAMBDA allUnits, noPrefix :
  Bind2(SelectSeq(prefixes, LAMBDA p : p.prefix # <<>> /\ StartsWith(string, p.prefix)),
        SelectSeq(allUnits, LAMBDA unit : StartsWith(string, unit)),
        LAMBDA matching, bare :
    Concat([i \in 1..Len(matching) |->
              PrefixedCandidates(string, matching[i].prefix, allUnits, noPrefix)])
      \o [j \in 1..Len(bare) |-> [prefix |-> <<>>, unit |-> bare[j]]]))

\* The length of prefix + unit of match[i].
MatchLength(match, i) == Len(match[i].prefix) + Len(match[i].unit)

\* match[0] of a match left in the order it was collected in.
FirstUnsorted(match) == match[1]

\* match[0] after match.sort by descending length of prefix + unit: the
\* first of the longest candidates.
FirstAfterSort(match) ==
  match[CHOOSE i \in 1..Len(match) :
          /\ \A j \in 1..Len(match) : MatchLength(match, j) <= MatchLength(match, i)
          /\ \A j \in 1..(i - 1) : MatchLength(match, j) < MatchLength(match, i)]

_parseBase(string) ==
  Bind(Candidates(string), LAMBDA match :
    IF Len(match) > 0
    THEN Bind(FirstAfterSort(match), LAMBDA first :
         Bind2(first.prefix, first.unit, LAMBDA prefix, unit :
         Bind2(prefix \o unit, K10 :> PrefixPower(prefix), LAMBDA consumed, initial :
           IF Includes(derivedUnitKeys, unit)
           THEN Bind(DerivedUnit(unit), LAMBDA derived :
                  [consumed |-> consumed,
                   rest |-> Substring(string, Len(consumed)),
                   result |->
                     [exponents |->
                        [k \in DOMAIN initial \cup DOMAIN derived.exponents |->
                           IF k \in DOMAIN derived.exponents
                           THEN Get(initial, k) + derived.exponents[k]
                           ELSE initial[k]],
                      conversion |-> derived.conversion],
                   success |-> TRUE])
           ELSE [consumed |-> consumed,
                 rest |-> Substring(string, Len(consumed)),
                 result |->
                   [exponents |->
                      [k \in DOMAIN initial \cup {unit} |->
                         IF k = unit THEN 1 ELSE initial[k]],
                    conversion |-> Identity],
                 success |-> TRUE])))
    ELSE failureResult(string, <<>>))

\* Every entry but that of the key 10 multiplied by exponent.
MultiplyEachButTen(exponents, exponent) ==
  [key \in DOMAIN exponents |->
     IF key = K10 THEN exponents[key] ELSE exponents[key] * exponent]

\* Object.keys(exponents).forEach: every entry multiplied by exponent.
MultiplyEach(exponents, exponent) ==
  [key \in DOMAIN exponents |-> exponents[key] * exponent]

_parseFactor(string) ==
  Bind(_parseBase(string), LAMBDA baseResult :
    IF baseResult.success
    THEN Bind2(baseResult.result.exponents, _parseChar(baseResult.rest, "^"),
               LAMBDA exponents, caretResult :
           IF caretResult.success
           THEN Bind(_parseExponent(caretResult.rest), LAMBDA exponentResult :
                Bind(baseResult.consumed \o caretResult.consumed
                       \o exponentResult.consumed,
                     LAMBDA consumedAroundCaret :
                  IF exponentResult.success
                  THEN [consumed |-> consumedAroundCaret,
                        rest |-> exponentResult.rest,
                        result |->
                          [exponents |->
                             MultiplyEach(exponents, exponentResult.result),
                           conversion |-> baseResult.result.conversion],
                        success |-> TRUE]
                  ELSE failureResult(string, consumedAroundCaret)))
           ELSE baseResult)
    ELSE failureResult(string, baseResult.consumed))

RECURSIVE _parseTerm(_)

\* A _parseCharTerm that succeeds with the character alone when no term
\* follows it.
_parseCharAndMaybeTerm(string, char) ==
  Bind(_parseChar(string, char), LAMBDA charResult :
    IF charResult.success
    THEN Bind(_parseTerm(charResult.rest), LAMBDA termResult :
           IF termResult.success
           THEN [consumed |-> charResult.consumed \o termResult.consumed,
                 rest |-> termResult.rest,
                 result |-> termResult.result, success |-> TRUE]
           ELSE [consumed |-> charResult.consumed, rest |-> charResult.rest,
                 result |-> [exponents |-> (K10 :> 0), conversion |-> Identity],
                 success |-> TRUE])
    ELSE failureResult(string, charResult.consumed))

_parseCharTerm(string, char) ==
  Bind(_parseChar(string, char), LAMBDA charResult :
    IF charResult.success
    THEN Bind(_parseTerm(charResult.rest), LAMBDA termResult :
         Bind(charResult.consumed \o termResult.consumed, LAMBDA consumed :
           IF termResult.success
           THEN [consumed |-> consumed, rest |-> termResult.rest,
                 result |-> termResult.result, success |-> TRUE]
           ELSE failureResult(string, consumed)))
    ELSE failureResult(string, charResult.consumed))

_parseAsterixTerm(string) == _parseCharTerm(string, "*")

_parseSlashTerm(string) == _parseCharTerm(string, "/")

\* The entries of the factor with those of the term added, under the keys
\* of the factor only.
ExponentsUnderFactorKeys(factorExponents, termExponents) ==
  [k \in DOMAIN factorExponents |-> factorExponents[k] + Get(termExponents, k)]

\* exponentsAfterAsterix: the entries of the factor, with every entry of the
\* term added under its key, (exponentsAfterAsterix[termKey] || 0) + it.
ExponentsAfterAsterix(factorExponents, asterixTermExponents) ==
  [k \in DOMAIN factorExponents \cup DOMAIN asterixTermExponents |->
     IF k \in DOMAIN asterixTermExponents
     THEN Get(factorExponents, k) + asterixTermExponents[k]
     ELSE factorExponents[k]]

\* exponentsAfterSlash: the same with every entry of the term subtracted.
ExponentsAfterSlash(factorExponents, slashTermExponents) ==
  [k \in DOMAIN factorExponents \cup DOMAIN slashTermExponents |->
     IF k \in DOMAIN slashTermExponents
     THEN Get(factorExponents, k) - slashTermExponents[k]
     ELSE factorExponents[k]]

\* The term between parentheses with an asterix-term after the ')' joined to
\* it, as a factor is joined to the asterix-term after it.
TermContinuedAfterParentheses(consumed, closeParenthesisResult, termBetweenParenthesesResult) ==
  Bind(_parseAsterixTerm(closeParenthesisResult.rest), LAMBDA asterixTermResult :
    IF asterixTermResult.success
    THEN [consumed |-> consumed
                         \o asterixTermResult.consumed,
          rest |-> asterixTermResult.rest,
          result |->
            [exponents |->
               ExponentsAfterAsterix(termBetweenParenthesesResult.result.exponents,
                                     asterixTermResult.result.exponents),
             conversion |->
               termBetweenParenthesesResult.result.conversion
                 \o asterixTermResult.result.conversion],
          success |-> TRUE]
    ELSE [consumed |-> consumed,
          rest |-> closeParenthesisResult.rest,
          result |-> termBetweenParenthesesResult.result,
          success |-> TRUE])

\* What _parseTerm returns once '(' <term> ')' has matched: the result of
\* the term between the parentheses, and the rest after the ')'.
TermBetweenParentheses(consumed, closeParenthesisResult, termBetweenParenthesesResult) ==
  [consumed |-> consumed,
   rest |-> closeParenthesisResult.rest,
   result |-> termBetweenParenthesesResult.result,
   success |-> TRUE]

_parseTerm(string) ==
  Bind(_parseChar(string, "("), LAMBDA openParenthesisResult :
    IF openParenthesisResult.success
    THEN Bind(_parseTerm(openParenthesisResult.rest),
              LAMBDA termBetweenParenthesesResult :
           IF termBetweenParenthesesResult.success
           THEN Bind(_parseChar(termBetweenParenthesesResult.rest, ")"),
                     LAMBDA closeParenthesisResult :
                Bind(openParenthesisResult.consumed
                       \o termBetweenParenthesesResult.consumed
                       \o closeParenthesisResult.consumed,
                     LAMBDA consumedInclusiveBetweenParentheses :
                  IF closeParenthesisResult.success
                  THEN TermBetweenParentheses(consumedInclusiveBetweenParentheses,
                                              closeParenthesisResult,
                                              termBetweenParenthesesResult)
                  ELSE failureResult(string, consumedInclusiveBetweenParentheses)))
           ELSE failureResult(string,
                  openParenthesisResult.consumed
                    \o termBetweenParenthesesResult.consumed))
    ELSE
    Bind(_parseFactor(string), LAMBDA factorResult :
      IF factorResult.success
      THEN Bind2(factorResult.result.exponents, factorResult.result.conversion,
                 LAMBDA factorExponents, factorConversion :
           Bind(_parseAsterixTerm(factorResult.rest), LAMBDA asterixTermResult :
             IF asterixTermResult.success
             THEN Bind(asterixTermResult.result.exponents, LAMBDA asterixTermExponents :
                    [consumed |-> factorResult.consumed \o asterixTermResult.consumed,
                     rest |-> asterixTermResult.rest,
                     result |->
                       [exponents |->
                          ExponentsAfterAsterix(factorExponents, asterixTermExponents),
                        conversion |->
                          factorConversion \o asterixTermResult.result.conversion],
                     success |-> TRUE])
             ELSE
             Bind(_parseSlashTerm(factorResult.rest), LAMBDA slashTermResult :
               IF slashTermResult.success
               THEN Bind(slashTermResult.result.exponents, LAMBDA slashTermExponents :
                      [consumed |-> factorResult.consumed \o slashTermResult.consumed,
                       rest |-> slashTermResult.rest,
                       result |->
                         [exponents |->
                            ExponentsAfterSlash(factorExponents, slashTermExponents),
                          conversion |->
                            factorConversion \o slashTermResult.result.conversion],
                       success |-> TRUE])
               ELSE factorResult)))
      ELSE failureResult(string, factorResult.consumed)))

\* The entries of exponents with their signs kept.
KeepEach(exponents) == exponents

\* Object.keys(exponents).forEach: every entry negated.
NegateEach(exponents) == [key \in DOMAIN exponents |-> -exponents[key]]

_parseExpression(string) ==
  Bind(_parseMagnitude(string), LAMBDA magnitudeResult :
    IF magnitudeResult.success \/ magnitudeResult.consumed = <<>>
    THEN IF magnitudeResult.rest # <<>>
         THEN Bind(IF magnitudeResult.rest[1] = "*" THEN <<"*">>
                   ELSE IF magnitudeResult.rest[1] = "/" THEN <<"/">>
                   ELSE <<>>,
                   LAMBDA operator :
              Bind(Substring(magnitudeResult.rest, IF operator = <<>> THEN 0 ELSE 1),
                   LAMBDA rest :
              Bind(_parseTerm(rest), LAMBDA termResult :
              Bind(magnitudeResult.consumed \o operator \o termResult.consumed,
                   LAMBDA consumed :
                IF termResult.success
                THEN Bind(termResult.result.exponents, LAMBDA exponents :
                     Bind(IF operator = <<"/">>
                          THEN NegateEach(exponents)
                          ELSE exponents,
                          LAMBDA negated :
                       [consumed |-> consumed,
                        rest |-> termResult.rest,
                        result |->
                          [magnitude |->
                             IF magnitudeResult.success
                             THEN ApplyConversion(termResult.result.conversion,
                                                  magnitudeResult.result.significand)
                             ELSE NaN,
                           exponents |->
                             IF magnitudeResult.success
                             THEN [negated EXCEPT
                                     ![K10] = @ + magnitudeResult.result.exponent]
                             ELSE negated],
                        success |-> TRUE]))
                ELSE failureResult(string, consumed)))))
         ELSE IF magnitudeResult.success
         THEN [consumed |-> magnitudeResult.consumed,
               rest |-> magnitudeResult.rest,
               result |-> [magnitude |-> magnitudeResult.result.significand,
                           exponents |-> (K10 :> magnitudeResult.result.exponent)],
               success |-> TRUE]
         ELSE TypeError   \* magnitudeResult.result is undefined
    ELSE failureResult(string, magnitudeResult.consumed))

(***************************************************************************)
(* The canonicalizer and the entry point.                                  *)
(***************************************************************************)

\* The unit keys in the order of the tables baseUnits and perUnits.
unitOrderAsDeclared == baseUnits \o perUnits

\* The unit keys in canonical order, after the key '10'.
unitOrder == << <<"g">> , <<"m">> , <<"s">> , <<"A">> , <<"K">> , <<"c", "d">> , <<"m", "o", "l">> , <<"%">> , <<"p", "p", "m">> , <<"p", "p", "b">> , <<"p", "p", "t">> , <<"p", "p", "q">> >>

\* string.replace(' ', ''): only the first space goes.
StripFirstSpace(string) ==
  IF \E i \in 1..Len(string) : string[i] = " "
  THEN Bind(CHOOSE i \in 1..Len(string) :
              string[i] = " " /\ \A j \in 1..(i - 1) : string[j] # " ",
            LAMBDA i : SubSeq(string, 1, i - 1) \o SubSeq(string, i + 1, Len(string)))
  ELSE string

\* string.split(' ').join('')
StripSpaces(string) == SelectSeq(string, LAMBDA c : c # " ")

\* The marker of a local that was never assigned.
Unassigned == [unassigned |-> TRUE]

\* unit + (exponents[unit] !== 1 ? '^' + exponents[unit] : '')
UnitString(unit, exponent) ==
  unit \o (IF exponent # 1 THEN <<"^">> \o IntToString(exponent) ELSE <<>>)

\* _normalizeUnits, with the local expressionResult it leaves.
_normalizeUnitsFrame(argument) ==
  Bind(StripSpaces(argument), LAMBDA string :
    IF string = <<>>
    THEN [expressionResult |-> Unassigned,
          returned |-> [consumed |-> <<>>, rest |-> <<>>,
                        result |-> [magnitude |-> <<>>, units |-> <<>>],
                        success |-> TRUE]]
    ELSE
    Bind(_parseExpression(string), LAMBDA expressionResult :
      IF IsThrown(expressionResult)
      THEN [expressionResult |-> expressionResult, returned |-> expressionResult]
      ELSE IF expressionResult.success
      THEN Bind2(expressionResult.result.magnitude, expressionResult.result.exponents,
                 LAMBDA magnitude, exponents :
           Bind(SelectSeq(<<K10>> \o unitOrder, LAMBDA unit : unit \in DOMAIN exponents),
                LAMBDA unitsList :
           Bind(JSONStringify(magnitude)
                  \o (IF exponents[K10] # 0
                      THEN <<"*", "1", "0", "^">> \o IntToString(exponents[K10])
                      ELSE <<>>),
                LAMBDA magnitudeString :
           Bind(SelectSeq(unitsList, LAMBDA unit : unit # K10), LAMBDA shown :
           Bind(Join([i \in 1..Len(shown) |-> UnitString(shown[i], exponents[shown[i]])],
                     <<"*">>),
                LAMBDA unitsString :
             [expressionResult |-> expressionResult,
              returned |-> [consumed |-> expressionResult.consumed,
                            rest |-> expressionResult.rest,
                            result |-> [magnitude |-> magnitudeString,
                                        units |-> unitsString],
                            success |-> TRUE]])))))
      ELSE [expressionResult |-> expressionResult,
            returned |-> failureResult(argument, expressionResult.consumed)]))

_normalizeUnits(string) == _normalizeUnitsFrame(string).returned

\* A message that leaves the consumed prefix out.
ErrorMessageWithoutConsumed(consumed, string) ==
  <<"U", "n", "a", "b", "l", "e", " ", "t", "o", " ", "p", "a", "r", "s", "e", " ", "'">> \o string
    \o <<"'", ".", " ", "A", "r", "e", " ", "y", "o", "u", " ", "s", "u", "r", "e", " ", "m", "e", "t", "r", "i", "c", " ", "u", "n", "i", "t", "s", " ", "a", "r", "e", " ", "b", "e", "i", "n", "g", " ", "u", "s", "e", "d", "?">>

\* The message of the Error that normalizeUnits throws.
ErrorMessage(consumed, string) ==
  <<"U", "n", "a", "b", "l", "e", " ", "t", "o", " ", "p", "a", "r", "s", "e", " ", "a", "f", "t", "e", "r", " ", "'">> \o consumed
    \o <<"'", " ", "i", "n", " ", "'">> \o string
    \o <<"'", ".", " ", "A", "r", "e", " ", "y", "o", "u", " ", "s", "u", "r", "e", " ", "m", "e", "t", "r", "i", "c", " ", "u", "n", "i", "t", "s", " ", "a", "r", "e", " ", "b", "e", "i", "n", "g", " ", "u", "s", "e", "d", "?">>

\* A normalizeUnits that throws when the parser left a rest.
OutcomeRequiringNoRest(string, normalizeUnitsResult) ==
  IF IsThrown(normalizeUnitsResult)
  THEN [kind |-> "threw", message |-> <<"T", "y", "p", "e", "E", "r", "r", "o", "r">>]
  ELSE IF normalizeUnitsResult.success /\ normalizeUnitsResult.rest = <<>>
  THEN Bind2(normalizeUnitsResult.result.magnitude, normalizeUnitsResult.result.units,
             LAMBDA magnitudeString, unitsString :
         [kind |-> "returned",
          value |->
            IF magnitudeString = <<>> /\ unitsString = <<>>
            THEN <<>>
            ELSE magnitudeString
                   \o (IF unitsString = <<"%">> \/ unitsString = <<>>
                       THEN <<>> ELSE <<" ">>)
                   \o unitsString])
  ELSE [kind |-> "threw",
        message |-> ErrorMessage(normalizeUnitsResult.consumed, string)]

\* What normalizeUnits returns or throws, given what _normalizeUnits returned
\* or threw.
Outcome(string, normalizeUnitsResult) ==
  IF IsThrown(normalizeUnitsResult)
  THEN [kind |-> "threw", message |-> <<"T", "y", "p", "e", "E", "r", "r", "o", "r">>]
  ELSE IF normalizeUnitsResult.success
  THEN Bind2(normalizeUnitsResult.result.magnitude, normalizeUnitsResult.result.units,
             LAMBDA magnitudeString, unitsString :
         [kind |-> "returned",
          value |->
            IF magnitudeString = <<>> /\ unitsString = <<>>
            THEN <<>>
            ELSE magnitudeString
                   \o (IF unitsString = <<"%">> \/ unitsString = <<>>
                       THEN <<>> ELSE <<" ">>)
                   \o unitsString])
  ELSE [kind |-> "threw",
        message |-> ErrorMessage(normalizeUnitsResult.consumed, string)]

\* _throttle(func, args), with applied what func gives on args: the
\* throttling wrapper, a collaborator outside the sources, wraps the call
\* without altering what it gives.
_throttle(applied) == applied

\* A normalizeUnits that keeps what the last finished call gave and gives it
\* to the next call.
normalizeUnitsKeepingLast(string) ==
  IF \E d \in DOMAIN pc : pc[d] = "done"
  THEN Bind(CHOOSE d \in DOMAIN pc : pc[d] = "done", LAMBDA d :
         [expressionResult |-> frame[d].expressionResult,
          normalizeUnitsResult |-> frame[d].normalizeUnitsResult,
          outcome |-> outcome[d]])
  ELSE Bind(_normalizeUnitsFrame(string), LAMBDA call :
         [expressionResult |-> call.expressionResult,
          normalizeUnitsResult |-> call.returned,
          outcome |-> Outcome(string, call.returned)])

\* normalizeUnits: the locals of the call and what it returns or throws.
normalizeUnits(string) ==
  Bind(_throttle(_normalizeUnitsFrame(string)), LAMBDA call :
    [expressionResult |-> call.expressionResult,
     normalizeUnitsResult |-> call.returned,
     outcome |-> Outcome(string, call.returned)])

(***************************************************************************)
(* The callers of normalizeUnits.  A call is entered (Call) and then runs  *)
(* to its return or its throw (Run); calls of different callers interleave.*)
(***************************************************************************)

NumCallers == 2

Callers == 1..NumCallers

\* The locals of a call that has not run.
NoFrame == [expressionResult |-> Unassigned, normalizeUnitsResult |-> Unassigned]

\* The strings the callers pass, besides the strings earlier calls returned.
CallInputs == {
  <<"5", "0", " ", "k", "P", "a">>,
  <<"5", "0", "*", "1", "0", "^", "3", " ", "k", "g", "/", "(", "m", "*", "s", "^", "2", ")">>,
  <<"5", "*", "1", "0", "^", "4", " ", "k", "g", "*", "m", "^", "-", "1", "*", "s", "^", "-", "2">>,
  <<"m">>,
  <<"n", "u", "l", "l", "m">>,
  <<>>,
  <<" ">>,
  <<"5", "m">>,
  <<" ", "5", " ", " ", "m", " ">> }

\* The strings that finished calls have returned.
Returned ==
  {outcome[d].value :
     d \in {e \in Callers : pc[e] = "done" /\ outcome[e].kind = "returned"}}

Init ==
  /\ pc = [c \in Callers |-> "idle"]
  /\ arguments = [c \in Callers |-> <<>>]
  /\ frame = [c \in Callers |-> NoFrame]
  /\ outcome = [c \in Callers |-> Unassigned]

\* Caller c enters normalizeUnits(s).
Call(c, s) ==
  /\ pc[c] \in {"idle", "done"}
  /\ pc' = [pc EXCEPT ![c] = "called"]
  /\ arguments' = [arguments EXCEPT ![c] = s]
  /\ frame' = [frame EXCEPT ![c] = NoFrame]
  /\ outcome' = [outcome EXCEPT ![c] = Unassigned]

\* The call of caller c runs: normalizeUnits is synchronous, it returns or
\* throws without a suspension point.
Run(c) ==
  /\ pc[c] = "called"
  /\ pc' = [pc EXCEPT ![c] = "done"]
  /\ \E call \in {normalizeUnits(arguments[c])} :
       /\ frame' = [frame EXCEPT ![c] =
                      [expressionResult |-> call.expressionResult,
                       normalizeUnitsResult |-> call.normalizeUnitsResult]]
       /\ outcome' = [outcome EXCEPT ![c] = call.outcome]
  /\ UNCHANGED arguments

Next ==
  \E c \in Callers :
    \/ \E s \in CallInputs \cup Returned : Call(c, s)
    \/ Run(c)

Spec == Init /\ [][Next]_vars

(***************************************************************************)
(* One call on each input of a family of strings.                          *)
(***************************************************************************)

MaxLen == 3

Alphabet == {"5", "m", "s", "k", "*", "/", "^", "(", ")", "-", " ", "E", "."}

\* The strings over Alphabet of length at most n.
RECURSIVE Strings(_)
Strings(n) ==
  IF n = 0 THEN {<<>>}
  ELSE LET shorter == Strings(n - 1)
       IN  shorter \cup {Append(s, c) : s \in {t \in shorter : Len(t) = n - 1},
                                        c \in Alphabet}

\* Every prefix but '' with every unit that takes a prefix.
PrefixedUnits ==
  {[prefix |-> prefixes[i].prefix, unit |-> units[j]] :
     i \in {k \in 1..Len(prefixes) : prefixes[k].prefix # <<>>},
     j \in {k \in 1..Len(units) : ~Includes(prefixlessUnits, units[k])}}

PrefixInputs == {<<"5", " ">> \o pu.prefix \o pu.unit : pu \in PrefixedUnits}

\* The significands and the power-of-ten suffixes of the Celsius inputs.
CelsiusSignificands == -30..40

CelsiusSuffixes ==
  {[text |-> <<>>, exponent |-> 0],
   [text |-> <<"*", "1", "0", "^", "3">>, exponent |-> 3],
   [text |-> <<"E", "-", "2">>, exponent |-> -2],
   [text |-> <<"e", "4">>, exponent |-> 4]}

CelsiusInput(x, suffix) == IntToString(x) \o suffix.text \o <<" ", "°", "C">>

CelsiusInputs == {CelsiusInput(x, f) : x \in CelsiusSignificands, f \in CelsiusSuffixes}

ExtraInputs == {
  <<"5", "0", " ", "k", "P", "a">>,
  <<"5", "0", "*", "1", "0", "^", "3", " ", "k", "g", "/", "(", "m", "*", "s", "^", "2", ")">>,
  <<"5", "*", "1", "0", "^", "4", " ", "k", "g", "*", "m", "^", "-", "1", "*", "s", "^", "-", "2">>,
  <<"5", "0", " ", "q", "P", "a">>,
  <<"5", " ", "s", "*", "m">>,
  <<"5", " ", "m", "*", "s">>,
  <<"5", " ", "m", "/", "m">>,
  <<"5", " ", "m", "^", "0">>,
  <<"5", " ", "E", "m">>,
  <<"5", " ", "m", "o", "l", "*", "c", "d", "*", "K", "*", "A", "*", "s", "*", "m", "*", "g">>,
  <<"5", " ", "p", "p", "q", "*", "p", "p", "t", "*", "p", "p", "b", "*", "p", "p", "m", "*", "%">>,
  <<"0", ".", "0", "0", "0", "0", "0", "0", "1", " ", "m">> }

Inputs == Strings(MaxLen) \cup PrefixInputs \cup CelsiusInputs \cup ExtraInputs

InitInputs ==
  \E s \in Inputs :
    /\ pc = [c \in Callers |-> IF c = 1 THEN "called" ELSE "idle"]
    /\ arguments = [c \in Callers |-> IF c = 1 THEN s ELSE <<>>]
    /\ frame = [c \in Callers |-> NoFrame]
    /\ outcome = [c \in Callers |-> Unassigned]

NextInputs == \E c \in Callers : Run(c)

SpecInputs == InitInputs /\ [][NextInputs]_vars

(***************************************************************************)
(* Number.ts: _round.  The arguments are integers below 2^53 in size, so   *)
(* the power of ten, the rounded quotient and their product are exact; the *)
(* quotient is the binary64 nearest to number / 10^powerOfTen.             *)
(***************************************************************************)

\* The natural a bignum stands for.
BigToNat(a) == IF a = <<>> THEN 0 ELSE parseInt([i \in 1..Len(a) |-> DigitChar(a[i])])

RECURSIVE BigShiftRight(_, _)
\* floor(a / 2^d)
BigShiftRight(a, d) == IF d = 0 \/ a = <<>> THEN a ELSE BigShiftRight(BigHalf(a), d - 1)

\* Math.trunc(x), x a finite number: the integer toward zero.
MathTrunc(x) ==
  IF x.M = <<>> THEN 0
  ELSE Bind(IF x.s <= 0 THEN BigShiftLeft(x.M, -x.s) ELSE BigShiftRight(x.M, x.s),
            LAMBDA whole : IF x.neg THEN -BigToNat(whole) ELSE BigToNat(whole))

\* A rounding that drops the fraction.
MathRoundTowardZero(x) == MathTrunc(x)

\* Math.round(x), x a finite number: floor(x + 1/2), so a half goes up.
MathRound(x) ==
  IF x.M = <<>> THEN 0
  ELSE IF x.s <= 0 THEN MathTrunc(x)
  ELSE Bind(BigAdd(x.M, BigShiftLeft(BigOne, x.s - 1)), LAMBDA shifted :
       Bind(BigShiftRight(shifted, x.s), LAMBDA whole :
         IF x.neg
         THEN IF BigShiftLeft(whole, x.s) = shifted
              THEN -(BigToNat(whole) - 1)
              ELSE -BigToNat(whole)
         ELSE BigToNat(whole)))

\* number / tenToThePower, for an integer number and tenToThePower = 10^powerOfTen
Quotient(number, powerOfTen) ==
  DecimalToNumber(number < 0, NatToBig(IF number < 0 THEN -number ELSE number), powerOfTen)

_round(number, powerOfTen) ==
  Bind(10 ^ powerOfTen, LAMBDA tenToThePower :
    MathRound(Quotient(number, powerOfTen)) * tenToThePower)

(***************************************************************************)
(* Calls of the exported functions on their own (module.exports): a caller *)
(* is in the call of a function and the call returns or throws.            *)
(***************************************************************************)

MaxRound == 60

MaxPower == 2

\* The arguments _round is called with.
RoundArguments ==
  {[number |-> n, powerOfTen |-> p] :
     n \in (-MaxRound..MaxRound) \cup {5540, 5549, 5550, 5551, -5540, -5550, -5551},
     p \in 0..MaxPower}

MaxRuleLen == 3

UnitAlphabet == {"m", "s", "k", "*", "/", "^", "(", ")", "-", "2"}

\* The strings over alphabet of length at most n.
RECURSIVE StringsOver(_, _)
StringsOver(alphabet, n) ==
  IF n = 0 THEN {<<>>}
  ELSE LET shorter == StringsOver(alphabet, n - 1)
       IN  shorter \cup {Append(s, c) : s \in {t \in shorter : Len(t) = n - 1},
                                        c \in alphabet}

\* Every prefix, '' too, followed by every unit.
BaseStrings ==
  {prefixes[i].prefix \o units[j] : i \in 1..Len(prefixes), j \in 1..Len(units)}

\* The same, alone and before a digit.
PairStrings == {base \o tail : base \in BaseStrings, tail \in {<<>>, <<"2">>}}

\* The strings _parseBase is called with.
BaseArguments ==
  PairStrings \cup StringsOver(UnitAlphabet, MaxRuleLen)
    \cup {<<"q">>, <<"5", "m">>, <<"o", "l">>}

\* Exponents as they are written, with the integers they stand for.
ExponentTexts ==
  {[text |-> <<"2">>, value |-> 2], [text |-> <<"-", "2">>, value |-> -2],
   [text |-> <<"+", "3">>, value |-> 3], [text |-> <<"0">>, value |-> 0],
   [text |-> <<"1", "2">>, value |-> 12], [text |-> <<"-", "1">>, value |-> -1]}

\* The strings _parseFactor is called with: every prefix and unit to every
\* exponent, and the short strings.
FactorArguments ==
  {base \o <<"^">> \o e.text : base \in BaseStrings, e \in ExponentTexts}
    \cup StringsOver(UnitAlphabet, MaxRuleLen)
    \cup {<<"m", "^", "-">>, <<"q", "^", "2">>, <<"m", "^", "2", "s">>}

\* Factors, one in parentheses among them, to join with '*' and '/'.
TermFactors ==
  {<<"m">>, <<"s">>, <<"k", "m">>, <<"m", "^", "2">>, <<"s", "^", "-", "1">>,
   <<"N">>, <<"°", "C">>, <<"%">>, <<"(", "m", "*", "s", ")">>}

\* Factors to chain, three at a time, with '*' and '/'.
ChainFactors == {<<"m">>, <<"s">>, <<"k", "g">>, <<"m", "^", "2">>}

TermChains ==
  {a \o p \o b \o q \o c :
     a \in ChainFactors, b \in ChainFactors, c \in ChainFactors,
     p \in {<<"*">>, <<"/">>}, q \in {<<"*">>, <<"/">>}}

\* Terms between parentheses, and what may follow the ')'.
TermsBetweenParentheses ==
  {<<"m">>, <<"k", "m">>, <<"m", "^", "2">>, <<"m", "*", "s">>, <<"m", "/", "s">>,
   <<"(", "m", ")">>}

AfterParentheses ==
  {<<>>, <<"*", "s">>, <<"/", "s">>, <<"^", "2">>, <<"*">>, <<"*", "(", "s", ")">>,
   <<"s">>, <<")">>}

ParenthesisedTerms ==
  {<<"(">> \o term \o <<")">> \o after :
     term \in TermsBetweenParentheses, after \in AfterParentheses}

\* The strings _parseTerm is called with: two factors joined, three factors
\* chained, the short strings, and longer terms.
TermArguments ==
  {f \o op \o g : f \in TermFactors, op \in {<<"*">>, <<"/">>}, g \in TermFactors}
    \cup TermChains \cup ParenthesisedTerms
    \cup StringsOver(UnitAlphabet, MaxRuleLen)
    \cup {<<"k", "g", "*", "m", "^", "-", "1", "*", "s", "^", "-", "2">>,
          <<"k", "g", "/", "(", "m", "*", "s", "^", "2", ")">>,
          <<"m", "/", "s", "/", "s">>, <<"m", "*", "s", "/", "k", "g">>,
          <<"(", "m", "/", "s", ")", "*", "s">>, <<"m", "*", "q">>,
          <<"(", "m", "*", "s">>}

\* Magnitudes as they are written, and the terms to put after them.
ExpressionMagnitudes ==
  {<<"5">>, <<"-", "5">>, <<"1", ".", "5">>, <<".", "5">>,
   <<"5", "*", "1", "0", "^", "3">>, <<"5", "E", "-", "2">>, <<"5", "0", "e", "3">>}

ExpressionTerms ==
  TermFactors \cup {<<"k", "g", "/", "(", "m", "*", "s", "^", "2", ")">>,
                    <<"m", "/", "s">>, <<"q">>, <<"(", "m">>}

ExpressionAlphabet == {"5", ".", "-", "E", "*", "/", "^", "(", "m", "s"}

NumberAlphabet == {"5", "0", ".", "+", "-", "m"}

\* The strings _parseDigits, _parseInteger and _parseDecimal are called
\* with: the short strings and longer numerals.
NumberArguments ==
  StringsOver(NumberAlphabet, MaxRuleLen)
    \cup {<<"1", ".", "2", "5">>, <<"-", "1", ".", "2", "5", "m">>,
          <<"+", "-", "5", ".", "5">>, <<"-", "-", ".", "2", "5">>,
          <<"-", "5", ".", "m">>, <<"1", "2", "3", "4", "5", "6", "7", "8", "9">>,
          <<"0", ".", "1">>, <<"5", ".", "5", ".", "5">>}

\* The strings _parseMagnitude is called with.
MagnitudeArguments ==
  NumberArguments \cup ExpressionMagnitudes
    \cup {<<"5", "*", "1", "0", "^">>, <<"5", "E">>, <<"5", "e", "+", "3", "m">>,
          <<"5", "*", "1", "0", "^", "-", "3">>, <<"5", "*", "m">>}

\* The strings and the characters _parseChar is called with.
CharArguments ==
  {[string |-> string, char |-> char] :
     string \in StringsOver({"^", "(", "+", "m"}, 2), char \in {"^", "(", "+", ")"}}

\* The strings normalizeUnits is called with on its own.
NormalizeArguments ==
  {<<"4", " ", "m", "^", "2">>, <<"4", " ", "m", "^", "-", "2">>,
   <<"4", " ", "k", "m", "^", "2">>,
   <<"5", " ", "(", "m">>, <<"5", " ", "m", "^", "x">>, <<"5", " ", "(", "q">>,
   <<"5", " ", "m", "*">>, <<"5", " ", "m", "/", "q">>,
   <<"5", " ", "m", "/", "s", "/", "s">>, <<"5", " ", "(", "m", ")", "*", "s">>,
   <<"5", " ", "x">>, <<"5", "*">>, <<"5">>, <<"5", " ", "m">>,
   <<"5", "*", "1", "0", "^", "3", "/", "m">>, <<"5", "*", "1", "0", "^", "3", " ", "m">>,
   <<"5", "*", "1", "0", "^", "3">>, <<"5", "/", "m">>, <<"5", " ", "k", "m", "/", "s">>,
   <<".", " ", "m">>}

\* The strings _parseExpression is called with: a magnitude and a term, with
\* '*', '/' or nothing between them, and the short strings.
ExpressionArguments ==
  {magnitude \o op \o term :
     magnitude \in ExpressionMagnitudes, op \in {<<>>, <<"*">>, <<"/">>},
     term \in ExpressionTerms}
    \cup StringsOver(ExpressionAlphabet, MaxRuleLen)
    \cup (TermArguments \ StringsOver(UnitAlphabet, MaxRuleLen))
    \cup {StripSpaces(string) : string \in NormalizeArguments}

ExportedFunctions ==
  {"_round", "normalizeUnits", "_parseChar", "_parseDigits", "_parseDotDigits",
   "_parseInteger", "_parseDecimal", "_parseMagnitude", "_parseBase", "_parseFactor", "_parseTerm",
   "_parseExpression"}

\* The arguments the exported function is called with.
ExportArguments(function) ==
  CASE function = "_round" -> RoundArguments
    [] function = "normalizeUnits" -> NormalizeArguments
    [] function = "_parseChar" -> CharArguments
    [] function \in {"_parseDigits", "_parseDotDigits", "_parseInteger", "_parseDecimal"}
         -> NumberArguments
    [] function = "_parseMagnitude" -> MagnitudeArguments
    [] function = "_parseBase" -> BaseArguments
    [] function = "_parseFactor" -> FactorArguments
    [] function = "_parseTerm" -> TermArguments
    [] function = "_parseExpression" -> ExpressionArguments

InitExports ==
  \E function \in ExportedFunctions :
    \E args \in ExportArguments(function) :
      /\ pc = [c \in Callers |-> IF c = 1 THEN function ELSE "idle"]
      /\ arguments = [c \in Callers |-> IF c = 1 THEN args ELSE <<>>]
      /\ frame = [c \in Callers |-> NoFrame]
      /\ outcome = [c \in Callers |-> Unassigned]

\* The call of function by caller c ends with value.
Return(c, function, value) ==
  /\ pc' = [pc EXCEPT ![c] = "done"]
  /\ outcome' = [outcome EXCEPT ![c] = [function |-> function, value |-> value]]
  /\ UNCHANGED <<arguments, frame>>

Run_round(c) ==
  /\ pc[c] = "_round"
  /\ Return(c, "_round", _round(arguments[c].number, arguments[c].powerOfTen))

Run_parseBase(c) ==
  /\ pc[c] = "_parseBase"
  /\ Return(c, "_parseBase", _parseBase(arguments[c]))

Run_parseFactor(c) ==
  /\ pc[c] = "_parseFactor"
  /\ Return(c, "_parseFactor", _parseFactor(arguments[c]))

Run_parseTerm(c) ==
  /\ pc[c] = "_parseTerm"
  /\ Return(c, "_parseTerm", _parseTerm(arguments[c]))

Run_parseExpression(c) ==
  /\ pc[c] = "_parseExpression"
  /\ Return(c, "_parseExpression", _parseExpression(arguments[c]))

Run_parseChar(c) ==
  /\ pc[c] = "_parseChar"
  /\ Return(c, "_parseChar", _parseChar(arguments[c].string, arguments[c].char))

Run_parseDigits(c) ==
  /\ pc[c] = "_parseDigits"
  /\ Return(c, "_parseDigits", _parseDigits(arguments[c]))

Run_parseDotDigits(c) ==
  /\ pc[c] = "_parseDotDigits"
  /\ Return(c, "_parseDotDigits", _parseDotDigits(arguments[c]))

Run_parseInteger(c) ==
  /\ pc[c] = "_parseInteger"
  /\ Return(c, "_parseInteger", _parseInteger(arguments[c]))

Run_parseDecimal(c) ==
  /\ pc[c] = "_parseDecimal"
  /\ Return(c, "_parseDecimal", _parseDecimal(arguments[c]))

Run_parseMagnitude(c) ==
  /\ pc[c] = "_parseMagnitude"
  /\ Return(c, "_parseMagnitude", _parseMagnitude(arguments[c]))

Run_normalizeUnits(c) ==
  /\ pc[c] = "normalizeUnits"
  /\ Return(c, "normalizeUnits", normalizeUnits(arguments[c]).outcome)

NextExports ==
  \E c \in Callers :
    \/ Run_round(c)
    \/ Run_normalizeUnits(c)
    \/ Run_parseChar(c)
    \/ Run_parseDigits(c)
    \/ Run_parseDotDigits(c)
    \/ Run_parseInteger(c)
    \/ Run_parseDecimal(c)
    \/ Run_parseMagnitude(c)
    \/ Run_parseBase(c)
    \/ Run_parseFactor(c)
    \/ Run_parseTerm(c)
    \/ Run_parseExpression(c)

SpecExports == InitExports /\ [][NextExports]_vars

(***************************************************************************)
(* The calls a rule makes of itself: the strings they are passed.          *)
(***************************************************************************)

\* A _parseInteger that would call itself on the string it was called with.
NestedIntegerOnInput(string) ==
  IF _parseChar(string, "+").success \/ _parseChar(string, "-").success
  THEN {string}
  ELSE {}

\* _parseInteger(plusResult.rest) and _parseInteger(minusResult.rest).
NestedInteger(string) ==
  IF _parseChar(string, "+").success THEN {_parseChar(string, "+").rest}
  ELSE IF _parseChar(string, "-").success THEN {_parseChar(string, "-").rest}
  ELSE {}

\* _parseDecimal(plusResult.rest) and _parseDecimal(minusResult.rest).
NestedDecimal(string) ==
  IF _parseChar(string, "+").success THEN {_parseChar(string, "+").rest}
  ELSE IF _parseChar(string, "-").success THEN {_parseChar(string, "-").rest}
  ELSE {}

\* _parseTerm(charResult.rest) in _parseCharTerm(string, char), if it is made.
NestedCharTerm(string, char) ==
  IF _parseChar(string, char).success THEN {_parseChar(string, char).rest} ELSE {}

\* _parseTerm(openParenthesisResult.rest), and the calls by
\* _parseAsterixTerm(factorResult.rest) and, when that fails, by
\* _parseSlashTerm(factorResult.rest).
NestedTerm(string) ==
  IF _parseChar(string, "(").success THEN {_parseChar(string, "(").rest}
  ELSE IF _parseFactor(string).success
  THEN NestedCharTerm(_parseFactor(string).rest, "*")
         \cup (IF _parseAsterixTerm(_parseFactor(string).rest).success
               THEN {}
               ELSE NestedCharTerm(_parseFactor(string).rest, "/"))
  ELSE {}

\* The strings that function, called with string, calls itself with.
Nested(function, string) ==
  CASE function = "_parseInteger" -> NestedInteger(string)
    [] function = "_parseDecimal" -> NestedDecimal(string)
    [] function = "_parseTerm" -> NestedTerm(string)
    [] OTHER -> {}


(***************************************************************************)
(* The vectors of the nested results as a rule leaves them.  A rule takes  *)
(* the vector of a nested result by reference (const exponents =           *)
(* baseResult.result.exponents), writes its own entries into it and        *)
(* returns it: the vector of the nested result and that of the result are  *)
(* one object.                                                             *)
(***************************************************************************)

\* baseResult.result.exponents when _parseFactor(string) returns, after a
\* base that parsed.
BaseVectorAfterFactor(string) ==
  IF _parseFactor(string).success /\ _parseChar(_parseBase(string).rest, "^").success
  THEN _parseFactor(string).result.exponents
  ELSE _parseBase(string).result.exponents

\* factorResult.result.exponents when _parseTerm(string) returns, after a
\* factor that parsed.
FactorVectorAfterTerm(string) ==
  IF \/ _parseAsterixTerm(_parseFactor(string).rest).success
     \/ _parseSlashTerm(_parseFactor(string).rest).success
  THEN _parseTerm(string).result.exponents
  ELSE _parseFactor(string).result.exponents

\* The string _parseExpression(string) passes to _parseTerm, when the
\* magnitude leaves a rest.
TermOfExpression(string) ==
  Bind(_parseMagnitude(string).rest, LAMBDA rest :
    Substring(rest, IF CharAt(rest, 0) \in {<<"*">>, <<"/">>} THEN 1 ELSE 0))

\* termResult.result.exponents when _parseExpression(string) returns, after
\* a term that parsed.
TermVectorAfterExpression(string) == _parseExpression(string).result.exponents

(***************************************************************************)
(* The copy of the normalizer in src/unnamed/part_000.  Its rules below    *)
(* <expression> are those of src/SIParser.ts but for the tables of         *)
(* _parseBase (the prefix 'a' is 18 in the copy, and the per-units ppt and *)
(* ppq are missing from it), so on text without these the copy's           *)
(* _parseMagnitude and _parseTerm are the operators above.  Its            *)
(* _parseExpression and its _normalizeUnits differ.                        *)
(***************************************************************************)

\* _parseExpression of the copy: nothing is parsed without a magnitude, and
\* the exponent of the magnitude is added under '10' before the entries are
\* negated for '/'.
_parseExpression_part_000(string) ==
  Bind(_parseMagnitude(string), LAMBDA magnitudeResult :
    IF magnitudeResult.success
    THEN IF magnitudeResult.rest # <<>>
         THEN Bind(IF magnitudeResult.rest[1] = "*" THEN <<"*">>
                   ELSE IF magnitudeResult.rest[1] = "/" THEN <<"/">>
                   ELSE <<>>,
                   LAMBDA operator :
              Bind(Substring(magnitudeResult.rest, IF operator = <<>> THEN 0 ELSE 1),
                   LAMBDA rest :
              Bind(_parseTerm(rest), LAMBDA termResult :
              Bind(magnitudeResult.consumed \o operator \o termResult.consumed,
                   LAMBDA consumed :
                IF termResult.success
                THEN Bind([termResult.result.exponents EXCEPT
                             ![K10] = @ + magnitudeResult.result.exponent],
                          LAMBDA exponents :
                       [consumed |-> consumed,
                        rest |-> termResult.rest,
                        result |->
                          [magnitude |->
                             ApplyConversion(termResult.result.conversion,
                                             magnitudeResult.result.significand),
                           exponents |->
                             IF operator = <<"/">>
                             THEN NegateEach(exponents)
                             ELSE exponents],
                        success |-> TRUE])
                ELSE failureResult(string, consumed)))))
         ELSE [consumed |-> magnitudeResult.consumed,
               rest |-> magnitudeResult.rest,
               result |-> [magnitude |-> magnitudeResult.result.significand,
                           exponents |-> (K10 :> magnitudeResult.result.exponent)],
               success |-> TRUE]
    ELSE failureResult(string, magnitudeResult.consumed))

\* _normalizeUnits of the copy: the magnitude is written by toString().
_normalizeUnits_part_000(argument) ==
  Bind(StripSpaces(argument), LAMBDA string :
    IF string = <<>>
    THEN [consumed |-> <<>>, rest |-> <<>>,
          result |-> [magnitude |-> <<>>, units |-> <<>>],
          success |-> TRUE]
    ELSE
    Bind(_parseExpression_part_000(string), LAMBDA expressionResult :
      IF expressionResult.success
      THEN Bind2(expressionResult.result.magnitude, expressionResult.result.exponents,
                 LAMBDA magnitude, exponents :
           Bind(SelectSeq(<<K10>> \o unitOrder, LAMBDA unit : unit \in DOMAIN exponents),
                LAMBDA unitsList :
           Bind(NumberToString(magnitude)
                  \o (IF exponents[K10] # 0
                      THEN <<"*", "1", "0", "^">> \o IntToString(exponents[K10])
                      ELSE <<>>),
                LAMBDA magnitudeString :
           Bind(SelectSeq(unitsList, LAMBDA unit : unit # K10), LAMBDA shown :
           Bind(Join([i \in 1..Len(shown) |-> UnitString(shown[i], exponents[shown[i]])],
                     <<"*">>),
                LAMBDA unitsString :
             [consumed |-> expressionResult.consumed,
              rest |-> expressionResult.rest,
              result |-> [magnitude |-> magnitudeString, units |-> unitsString],
              success |-> TRUE])))))
      ELSE failureResult(argument, expressionResult.consumed)))

(***************************************************************************)
(* The properties.                                                         *)
(***************************************************************************)

\* The call of caller c has returned a string.
HasReturned(c) == pc[c] = "done" /\ outcome[c].kind = "returned"

\* The call of caller c has thrown.
HasThrown(c) == pc[c] = "done" /\ outcome[c].kind = "threw"

\* The call of caller c ran the expression parser, which succeeded.
HasParsed(c) ==
  /\ pc[c] = "done"
  /\ "success" \in DOMAIN frame[c].expressionResult
  /\ frame[c].expressionResult.success

\* The call of caller c ran the expression parser, which failed.
HasFailedToParse(c) ==
  /\ pc[c] = "done"
  /\ "success" \in DOMAIN frame[c].expressionResult
  /\ ~frame[c].expressionResult.success

\* The exponent vector the expression parser left to the call of caller c.
ExponentsOf(c) == frame[c].expressionResult.result.exponents

\* The units part of what _normalizeUnits returned to the call of caller c.
UnitsOf(c) == frame[c].normalizeUnitsResult.result.units

Input50kPa == <<"5", "0", " ", "k", "P", "a">>

Input50e3kgPerMS2 == <<"5", "0", "*", "1", "0", "^", "3", " ", "k", "g", "/", "(", "m", "*", "s", "^", "2", ")">>

Input5e4kgM1S2 == <<"5", "*", "1", "0", "^", "4", " ", "k", "g", "*", "m", "^", "-", "1", "*", "s", "^", "-", "2">>

Output50e6 == <<"5", "0", "*", "1", "0", "^", "6", " ", "g", "*", "m", "^", "-", "1", "*", "s", "^", "-", "2">>

\* C1: normalize("50 kPa") and normalize("50*10^3 kg/(m*s^2)") both return
\* the canonical string "50*10^6 g*m^-1*s^-2".
C1_BothReturnCanonicalPressure ==
  \A c \in Callers :
    pc[c] = "done" /\ arguments[c] \in {Input50kPa, Input50e3kgPerMS2}
      => outcome[c] = [kind |-> "returned", value |-> Output50e6]

C1_Witness ==
  \E c, d \in Callers :
    /\ HasReturned(c) /\ arguments[c] = Input50kPa
    /\ HasReturned(d) /\ arguments[d] = Input50e3kgPerMS2

\* The unit exponent vector of an exponent vector: its keys but '10'.
UnitVector(exponents) == [k \in DOMAIN exponents \ {K10} |-> exponents[k]]

\* The magnitude of the call of caller c, significand times power of ten,
\* as a multiple of 10^low (for a significand that is a natural number).
ScaledMagnitude(c, low) ==
  parseInt(JSONStringify(frame[c].expressionResult.result.magnitude))
    * 10 ^ (ExponentsOf(c)[K10] - low)

\* C2: normalize("5*10^4 kg*m^-1*s^-2") and normalize("50 kPa") normalize to
\* an equal magnitude (significand scaled by the accumulated power of ten)
\* and to equal unit exponent vectors.
C2_CrossRepresentationEqual ==
  \A c, d \in Callers :
    /\ pc[c] = "done" /\ arguments[c] = Input5e4kgM1S2
    /\ pc[d] = "done" /\ arguments[d] = Input50kPa
    => /\ HasReturned(c) /\ HasParsed(c)
       /\ HasReturned(d) /\ HasParsed(d)
       /\ UnitVector(ExponentsOf(c)) = UnitVector(ExponentsOf(d))
       /\ LET low == IF ExponentsOf(c)[K10] < ExponentsOf(d)[K10]
                     THEN ExponentsOf(c)[K10] ELSE ExponentsOf(d)[K10]
          IN  ScaledMagnitude(c, low) = ScaledMagnitude(d, low)

C2_Witness ==
  \E c, d \in Callers :
    /\ HasReturned(c) /\ arguments[c] = Input5e4kgM1S2
    /\ HasReturned(d) /\ arguments[d] = Input50kPa
    /\ outcome[c] # outcome[d]

Input50qPa == <<"5", "0", " ", "q", "P", "a">>

\* Whether p occurs in s as a substring.
Contains(s, p) == \E i \in 0..(Len(s) - Len(p)) : SubSeq(s, i + 1, i + Len(p)) = p

\* string between single quotes
Quoted(string) == <<"'">> \o string \o <<"'">>

\* C3: whenever the expression parse fails, normalize throws (it returns no
\* string) and the message of the error holds the original input and the
\* consumed prefix the parser reported; for "50 qPa" the parse fails and the
\* consumed prefix is "50".
C3_FailureThrowsCitingInputAndConsumed ==
  \A c \in Callers :
    /\ HasFailedToParse(c)
       => /\ outcome[c].kind = "threw"
          /\ Contains(outcome[c].message, Quoted(arguments[c]))
          /\ Contains(outcome[c].message, Quoted(frame[c].expressionResult.consumed))
    /\ pc[c] = "done" /\ arguments[c] = Input50qPa
       => /\ HasFailedToParse(c)
          /\ frame[c].expressionResult.consumed = <<"5", "0">>

C3_Witness ==
  \E c \in Callers :
    /\ HasFailedToParse(c) /\ HasThrown(c)
    /\ arguments[c] = Input50qPa
    /\ Contains(outcome[c].message, <<"'", "5", "0", "'">>)

\* s without its spaces
RECURSIVE Unspaced(_)
Unspaced(s) ==
  IF s = <<>> THEN <<>>
  ELSE IF Head(s) = " " THEN Unspaced(Tail(s))
  ELSE <<Head(s)>> \o Unspaced(Tail(s))

\* C4: an input that is empty or all spaces makes normalize return '' (with
\* magnitude '' and units '') and the expression parser is not invoked;
\* two inputs that differ only in spaces have the same parse, and both throw
\* or both return the same string.
C4_EmptyAndSpaces ==
  \A c \in Callers :
    pc[c] = "done"
    => /\ (\A i \in 1..Len(arguments[c]) : arguments[c][i] = " ")
          => /\ outcome[c] = [kind |-> "returned", value |-> <<>>]
             /\ frame[c].expressionResult = Unassigned
             /\ frame[c].normalizeUnitsResult.result = [magnitude |-> <<>>, units |-> <<>>]
       /\ \A d \in Callers :
            pc[d] = "done" /\ Unspaced(arguments[c]) = Unspaced(arguments[d])
            => /\ frame[c].expressionResult = frame[d].expressionResult
               /\ outcome[c].kind = outcome[d].kind
               /\ outcome[c].kind = "returned" => outcome[c] = outcome[d]

C4_Witness ==
  \E c, d \in Callers :
    /\ HasReturned(c) /\ arguments[c] = <<" ">>
    /\ frame[c].expressionResult = Unassigned
    /\ HasReturned(d) /\ arguments[d] = <<" ", "5", " ", " ", "m", " ">>
    /\ outcome[d].value = <<"5", " ", "m">>

\* C5: normalization is idempotent: a string that normalize returned is
\* itself normalized to the same string.
C5_Idempotent ==
  \A c, d \in Callers :
    HasReturned(d) /\ pc[c] = "done" /\ arguments[c] = outcome[d].value
      => outcome[c] = outcome[d]

\* The order of the unit keys that C6 states.
C6_Order == <<<<"g">>, <<"m">>, <<"s">>, <<"A">>, <<"K">>, <<"c", "d">>, <<"m", "o", "l">>, <<"%">>, <<"p", "p", "m">>, <<"p", "p", "b">>, <<"p", "p", "t">>, <<"p", "p", "q">>>>

\* The units part C6 states for an exponent vector.
C6_Units(exponents) ==
  LET present == SelectSeq(C6_Order, LAMBDA key : key \in DOMAIN exponents)
  IN  Join([i \in 1..Len(present) |->
              IF exponents[present[i]] = 1 THEN present[i]
              ELSE present[i] \o <<"^">> \o IntToString(exponents[present[i]])],
           <<"*">>)

InputAllBaseUnits == <<"5", " ", "m", "o", "l", "*", "c", "d", "*", "K", "*", "A", "*", "s", "*", "m", "*", "g">>

\* C6: the units part of a successful normalize output lists the unit keys
\* in the order g, m, s, A, K, cd, mol, %, ppm, ppb, ppt, ppq, joined by
\* '*', a key alone for the exponent 1 and key^exponent otherwise, without
\* the key 10; so normalize("5 s*m") = normalize("5 m*s").
C6_CanonicalUnitOrder ==
  \A c \in Callers :
    /\ HasParsed(c)
       => /\ HasReturned(c)
          /\ UnitsOf(c) = C6_Units(ExponentsOf(c))
    /\ pc[c] = "done" /\ arguments[c] \in {<<"5", " ", "s", "*", "m">>, <<"5", " ", "m", "*", "s">>}
       => outcome[c] = [kind |-> "returned", value |-> <<"5", " ", "m", "*", "s">>]

C6_Witness ==
  \E c \in Callers :
    /\ HasParsed(c) /\ arguments[c] = InputAllBaseUnits
    /\ UnitsOf(c) = <<"g", "*", "m", "*", "s", "*", "A", "*", "K", "*", "c", "d", "*", "m", "o", "l">>

\* The pieces of s between the separators sep.
RECURSIVE Pieces(_, _)
Pieces(s, sep) ==
  IF \E i \in 1..Len(s) : s[i] = sep
  THEN LET i == CHOOSE j \in 1..Len(s) : s[j] = sep /\ \A l \in 1..(j - 1) : s[l] # sep
       IN  <<SubSeq(s, 1, i - 1)>> \o Pieces(SubSeq(s, i + 1, Len(s)), sep)
  ELSE <<s>>

\* The unit keys that a units string shows.
ShownKeys(unitsString) ==
  IF unitsString = <<>> THEN {}
  ELSE LET pieces == Pieces(unitsString, "*")
       IN  {Pieces(pieces[i], "^")[1] : i \in 1..Len(pieces)}

\* C7: the units part of a successful normalize output shows only unit keys
\* whose net exponent is not zero.
C7_NoZeroExponentShown ==
  \A c \in Callers :
    HasParsed(c)
      => \A key \in DOMAIN ExponentsOf(c) \ {K10} :
           ExponentsOf(c)[key] = 0 => key \notin ShownKeys(UnitsOf(c))

\* The power of ten a unit contributes by itself.
OwnPower(unit) ==
  IF Includes(derivedUnitKeys, unit) THEN Get(DerivedUnit(unit).exponents, K10) ELSE 0

\* C8: for every prefix of the table and every unit that takes a prefix,
\* normalize("5 " + prefix + unit) succeeds and its power-of-ten exponent is
\* the power of the prefix plus the power the unit contributes.
C8_EveryPrefixedUnitAccepted ==
  \A c \in Callers :
    pc[c] = "done"
      => \A pu \in PrefixedUnits :
           arguments[c] = <<"5", " ">> \o pu.prefix \o pu.unit
             => /\ HasReturned(c) /\ HasParsed(c)
                /\ ExponentsOf(c)[K10] = PrefixPower(pu.prefix) + OwnPower(pu.unit)

C10_CelsiusOffset ==
  \A c \in Callers :
    pc[c] = "done"
      => \A x \in CelsiusSignificands, suffix \in CelsiusSuffixes :
           arguments[c] = CelsiusInput(x, suffix)
             => /\ HasReturned(c) /\ HasParsed(c)
                /\ UnitsOf(c) = <<"K">>
                /\ ExponentsOf(c)[K10] = suffix.exponent
                /\ JSONStringify(frame[c].expressionResult.result.magnitude)
                     = IntToString(x + 273) \o <<".", "1", "5">>

\* C11: the input need not be consumed whole: when the expression parser
\* succeeds and leaves a rest that is not empty, the consumed part and the
\* rest make up the input without its spaces, normalize returns a string,
\* and the string is the one it returns for the consumed part alone.
C11_UnconsumedRestIgnored ==
  \A c \in Callers :
    HasParsed(c) /\ frame[c].expressionResult.rest # <<>>
      => /\ frame[c].expressionResult.consumed \o frame[c].expressionResult.rest
              = Unspaced(arguments[c])
         /\ HasReturned(c)
         /\ outcome[c] = Outcome(frame[c].expressionResult.consumed,
                                 _normalizeUnits(frame[c].expressionResult.consumed))

C11_Witness ==
  \E c \in Callers :
    /\ HasReturned(c)
    /\ arguments[c] = <<"5", "m", ")">>
    /\ frame[c].expressionResult.consumed = <<"5", "m">>
    /\ frame[c].expressionResult.rest = <<")">>
    /\ outcome[c].value = <<"5", " ", "m">>

\* The call of function by caller c has ended.
HasEnded(c, function) ==
  pc[c] = "done" /\ "function" \in DOMAIN outcome[c] /\ outcome[c].function = function

\* C12: _round(n, p), for integers n and p >= 0, returns the multiple of
\* 10^p nearest to n, a half going up (_round(5540, 2) = 5500 and
\* _round(5550, 2) = 5600), and rounding what it returned returns the same.
C12_RoundToNearestMultiple ==
  \A c \in Callers :
    HasEnded(c, "_round")
      => LET n == arguments[c].number
             p == arguments[c].powerOfTen
             r == outcome[c].value
         IN  /\ r % (10 ^ p) = 0
             /\ 2 * (n - r) < 10 ^ p
             /\ 2 * (r - n) <= 10 ^ p
             /\ _round(r, p) = r
             /\ n = 5540 /\ p = 2 => r = 5500
             /\ n = 5550 /\ p = 2 => r = 5600

C12_Witness ==
  \E c \in Callers :
    /\ HasEnded(c, "_round")
    /\ arguments[c] = [number |-> 5550, powerOfTen |-> 2]
    /\ outcome[c].value = 5600

\* The pairs of a prefix and a unit that matchBase may match: every prefix
\* of the table, '' too, with every unit, but no prefix other than '' with
\* a per-unit or with °C.
MatchablePairs ==
  {pair \in {[prefix |-> prefixes[i].prefix, unit |-> units[j]] :
               i \in 1..Len(prefixes), j \in 1..Len(units)} :
     pair.prefix = <<>> \/ ~Includes(prefixlessUnits, pair.unit)}

\* The matchable pairs that string starts with.
PairsAt(string) ==
  {pair \in MatchablePairs : StartsWith(string, pair.prefix \o pair.unit)}

\* The exponent vector of a pair: the power of the prefix under the key 10,
\* with the unit to the power 1 or with the vector of the derived unit.
PairExponents(pair) ==
  LET own == IF Includes(derivedUnitKeys, pair.unit)
             THEN DerivedUnit(pair.unit).exponents
             ELSE pair.unit :> 1
  IN  [k \in DOMAIN own \cup {K10} |->
         Get(own, k) + (IF k = K10 THEN PrefixPower(pair.prefix) ELSE 0)]

\* Every pair of a prefix and a unit of the tables, and those string starts
\* with.
AllPairs ==
  {[prefix |-> prefixes[i].prefix, unit |-> units[j]] :
     i \in 1..Len(prefixes), j \in 1..Len(units)}

AllPairsAt(string) ==
  {pair \in AllPairs : StartsWith(string, pair.prefix \o pair.unit)}

\* The result of _parseBase on string is the longest pair among pairs.
LongestOf(pairs, string, baseResult) ==
  /\ pairs = {} => ~baseResult.success /\ baseResult.consumed = <<>>
  /\ pairs # {}
       => /\ baseResult.success
          /\ \E pair \in pairs :
               /\ baseResult.consumed = pair.prefix \o pair.unit
               /\ baseResult.consumed \o baseResult.rest = string
               /\ baseResult.result.exponents = PairExponents(pair)
               /\ \A other \in pairs :
                    Len(other.prefix) + Len(other.unit) <= Len(baseResult.consumed)

\* C13, over the pairs that take part: matchBase returns a pair of a prefix and a unit that the
\* input starts with, a pair of a non-empty prefix with a per-unit or with
\* degrees Celsius left aside, and whose length, prefix and unit together, is
\* the greatest among all such pairs ("mol" is the unit mol, "kat" the unit
\* kat, "cd" the candela, "mmol" milli and mol); with no such pair it fails
\* and has consumed nothing.
C13_BaseLongestMatch ==
  \A c \in Callers :
    HasEnded(c, "_parseBase")
      => LET string == arguments[c]
             baseResult == outcome[c].value
         IN  /\ LongestOf(PairsAt(string), string, baseResult)
             /\ string = <<"m", "o", "l">> => baseResult.result.exponents = (K10 :> 0) @@ (<<"m", "o", "l">> :> 1)
             /\ string = <<"k", "a", "t">>
                  => baseResult.result.exponents
                       = (K10 :> 0) @@ (<<"m", "o", "l">> :> 1) @@ (<<"s">> :> -1)
             /\ string = <<"c", "d">> => baseResult.result.exponents = (K10 :> 0) @@ (<<"c", "d">> :> 1)
             /\ string = <<"m", "m", "o", "l">> => baseResult.result.exponents = (K10 :> -3) @@ (<<"m", "o", "l">> :> 1)

\* C13, over every pair: the pair returned is the longest among every pair of a
\* prefix and a unit that the input starts with.
C13_LongestOfEveryPair ==
  \A c \in Callers :
    HasEnded(c, "_parseBase")
      => LongestOf(AllPairsAt(arguments[c]), arguments[c], outcome[c].value)

\* "m%" starts with milli and percent, and the metre is what is returned.
C13_Witness ==
  \E c \in Callers :
    /\ HasEnded(c, "_parseBase")
    /\ arguments[c] = <<"m", "%">>
    /\ outcome[c].value.consumed = <<"m">>
    /\ outcome[c].value.rest = <<"%">>
    /\ [prefix |-> <<"m">>, unit |-> <<"%">>] \in AllPairsAt(arguments[c])

\* The units that C14 is about: the per-units and the degree Celsius.
C14_PerUnits == {<<"%">>, <<"p", "p", "m">>, <<"p", "p", "b">>, <<"p", "p", "t">>, <<"p", "p", "q">>}

C14_DegreeCelsius == <<"°", "C">>

\* The unit of a successful result of _parseBase, when it is a per-unit (its
\* key is in the vector) or the degree Celsius (the result has its
\* conversion): the set of that unit, or the empty set.
C14_UnitOf(baseResult) ==
  {u \in C14_PerUnits : u \in DOMAIN baseResult.result.exponents}
    \cup (IF baseResult.result.conversion = Celsius THEN {C14_DegreeCelsius} ELSE {})

\* C14: matchBase never puts a non-empty prefix before a per-unit (%, ppm,
\* ppb, ppt, ppq) or before the degree Celsius: a successful result whose unit
\* is one of these has consumed the unit alone and has 0 under the key 10,
\* and an input that is a non-empty prefix followed by one of these units is
\* not consumed as that pair.
C14_NoPrefixOnPerUnits ==
  \A c \in Callers :
    HasEnded(c, "_parseBase")
      => LET string == arguments[c]
             baseResult == outcome[c].value
         IN  /\ baseResult.success
                  => \A u \in C14_UnitOf(baseResult) :
                       /\ baseResult.consumed = u
                       /\ baseResult.result.exponents[K10] = 0
             /\ \A i \in 1..Len(prefixes), u \in C14_PerUnits \cup {C14_DegreeCelsius} :
                  /\ prefixes[i].prefix # <<>>
                  /\ StartsWith(string, prefixes[i].prefix \o u)
                  => baseResult.consumed # prefixes[i].prefix \o u

\* "ppm" or "°C" is consumed alone, with 0 under the key 10.
C14_Witness ==
  /\ \E c \in Callers :
       /\ HasEnded(c, "_parseBase")
       /\ arguments[c] \in {<<"p", "p", "m">>, <<"°", "C">>}
       /\ outcome[c].value.success
       /\ outcome[c].value.consumed = arguments[c]
       /\ outcome[c].value.result.exponents[K10] = 0

\* The part of string before its first '^', and the part after it.
BeforeCaret(string) ==
  IF \E i \in 1..Len(string) : string[i] = "^"
  THEN SubSeq(string, 1, (CHOOSE i \in 1..Len(string) :
                            /\ string[i] = "^"
                            /\ \A j \in 1..(i - 1) : string[j] # "^") - 1)
  ELSE string

AfterCaret(string) == Substring(string, Len(BeforeCaret(string)) + 1)

\* The call of caller c was of _parseFactor on a base, which _parseBase
\* consumes whole, followed by '^' and the exponent e.
C15_IsPower(c, e) ==
  /\ HasEnded(c, "_parseFactor")
  /\ BeforeCaret(arguments[c]) # arguments[c]
  /\ AfterCaret(arguments[c]) = e.text
  /\ _parseBase(BeforeCaret(arguments[c])).success
  /\ _parseBase(BeforeCaret(arguments[c])).consumed = BeforeCaret(arguments[c])

\* C15: matchFactor on base^n, n an integer with or without a sign, returns
\* the vector of the base with every entry, the entry of the key 10 too,
\* multiplied by n, and the conversion of the base; "km^2" has 6 under the
\* key 10, and normalizeUnits returns "4 m^2" for "4 m^2" and "4 m^-2" for
\* "4 m^-2".
C15_FactorPower ==
  \A c \in Callers :
    /\ \A e \in ExponentTexts :
         C15_IsPower(c, e)
           => LET baseResult == _parseBase(BeforeCaret(arguments[c]))
                  factorResult == outcome[c].value
              IN  /\ factorResult.success
                  /\ factorResult.consumed = arguments[c]
                  /\ factorResult.rest = <<>>
                  /\ DOMAIN factorResult.result.exponents
                       = DOMAIN baseResult.result.exponents
                  /\ \A key \in DOMAIN baseResult.result.exponents :
                       factorResult.result.exponents[key]
                         = baseResult.result.exponents[key] * e.value
                  /\ factorResult.result.conversion = baseResult.result.conversion
    /\ HasEnded(c, "_parseFactor") /\ arguments[c] = <<"k", "m", "^", "2">>
         => outcome[c].value.result.exponents = (K10 :> 6) @@ (<<"m">> :> 2)
    /\ HasEnded(c, "normalizeUnits") /\ arguments[c] \in {<<"4", " ", "m", "^", "2">>, <<"4", " ", "m", "^", "-", "2">>}
         => outcome[c].value = [kind |-> "returned", value |-> arguments[c]]

\* "km^-2" has been parsed: -6 under the key 10 and -2 under m.
C15_Witness ==
  \E c \in Callers :
    /\ C15_IsPower(c, [text |-> <<"-", "2">>, value |-> -2])
    /\ arguments[c] = <<"k", "m", "^", "-", "2">>
    /\ outcome[c].value.success
    /\ outcome[c].value.result.exponents = (K10 :> -6) @@ (<<"m">> :> -2)

\* The call of caller c was of _parseTerm on a factor, the character
\* operator, and a term: the factor and the term both parse.
C16_IsJoined(c, operator) ==
  /\ HasEnded(c, "_parseTerm")
  /\ CharAt(arguments[c], 0) # <<"(">>
  /\ _parseFactor(arguments[c]).success
  /\ CharAt(_parseFactor(arguments[c]).rest, 0) = <<operator>>
  /\ _parseTerm(Substring(_parseFactor(arguments[c]).rest, 1)).success

\* The vector of the factor of the call of caller c, and that of the term
\* after the operator.
C16_FactorVector(c) == _parseFactor(arguments[c]).result.exponents

C16_TermVector(c) ==
  _parseTerm(Substring(_parseFactor(arguments[c]).rest, 1)).result.exponents

\* C16: matchTerm on factor '*' term, and on factor '/' term, returns a
\* vector over the keys of the factor and of the term together, whose entry
\* under each key is that of the factor plus, for '/' minus, that of the
\* term, a key that is absent counting as 0.
C16_TermJoinsVectors ==
  \A c \in Callers :
    /\ C16_IsJoined(c, "*")
         => /\ outcome[c].value.success
            /\ DOMAIN outcome[c].value.result.exponents
                 = DOMAIN C16_FactorVector(c) \cup DOMAIN C16_TermVector(c)
            /\ \A key \in DOMAIN C16_FactorVector(c) \cup DOMAIN C16_TermVector(c) :
                 outcome[c].value.result.exponents[key]
                   = Get(C16_FactorVector(c), key) + Get(C16_TermVector(c), key)
    /\ C16_IsJoined(c, "/")
         => /\ outcome[c].value.success
            /\ DOMAIN outcome[c].value.result.exponents
                 = DOMAIN C16_FactorVector(c) \cup DOMAIN C16_TermVector(c)
            /\ \A key \in DOMAIN C16_FactorVector(c) \cup DOMAIN C16_TermVector(c) :
                 outcome[c].value.result.exponents[key]
                   = Get(C16_FactorVector(c), key) - Get(C16_TermVector(c), key)

\* "km/s^-1" has been parsed: s is not a key of the factor, and has 0 - -1.
C16_Witness ==
  \E c \in Callers :
    /\ C16_IsJoined(c, "/")
    /\ arguments[c] = <<"k", "m", "/", "s", "^", "-", "1">>
    /\ outcome[c].value.result.exponents = (K10 :> 3) @@ (<<"m">> :> 1) @@ (<<"s">> :> 1)

\* The operator that _parseExpression reads at the head of rest: '*', '/'
\* or none.
OperatorAt(rest) ==
  IF CharAt(rest, 0) \in {<<"*">>, <<"/">>} THEN CharAt(rest, 0) ELSE <<>>

\* The call of caller c was of _parseExpression on a magnitude followed by
\* operator, '*', '/' or none, and a term: both parse.
C17_IsMagnitudeAndTerm(c, operator) ==
  /\ HasEnded(c, "_parseExpression")
  /\ _parseMagnitude(arguments[c]).success
  /\ _parseMagnitude(arguments[c]).rest # <<>>
  /\ OperatorAt(_parseMagnitude(arguments[c]).rest) = operator
  /\ _parseTerm(Substring(_parseMagnitude(arguments[c]).rest, Len(operator))).success

\* The vector of the term after the magnitude and the operator.
C17_TermVector(c, operator) ==
  _parseTerm(Substring(_parseMagnitude(arguments[c]).rest, Len(operator))).result.exponents

\* C17: matchExpression on a magnitude followed by '*' and a term, by '/'
\* and a term, or by a term, returns the vector of the term, negated after
\* '/', with the power of ten of the magnitude added under the key 10
\* ("5*10^3/s" has 3 under the key 10 and -1 under s).
C17_ExpressionVector ==
  \A c \in Callers :
    /\ \A operator \in {<<>>, <<"*">>, <<"/">>} :
         C17_IsMagnitudeAndTerm(c, operator)
           => LET term == C17_TermVector(c, operator)
                  power == _parseMagnitude(arguments[c]).result.exponent
                  sign == IF operator = <<"/">> THEN -1 ELSE 1
              IN  /\ ~IsThrown(outcome[c].value)
                  /\ outcome[c].value.success
                  /\ DOMAIN outcome[c].value.result.exponents = DOMAIN term
                  /\ \A key \in DOMAIN term :
                       outcome[c].value.result.exponents[key]
                         = sign * term[key] + (IF key = K10 THEN power ELSE 0)
    /\ HasEnded(c, "_parseExpression") /\ arguments[c] = <<"5", "*", "1", "0", "^", "3", "/", "s">>
         => /\ ~IsThrown(outcome[c].value)
            /\ outcome[c].value.success
            /\ outcome[c].value.result.exponents = (K10 :> 3) @@ (<<"s">> :> -1)

\* "5*10^3/km" has been parsed: the term has 3 under the key 10, negated
\* to -3, and the magnitude adds 3.
C17_Witness ==
  \E c \in Callers :
    /\ C17_IsMagnitudeAndTerm(c, <<"/">>)
    /\ arguments[c] = <<"5", "*", "1", "0", "^", "3", "/", "k", "m">>
    /\ outcome[c].value.result.exponents = (K10 :> 0) @@ (<<"m">> :> -1)

\* The call of caller c was of _parseExpression on a string that is not
\* empty and that begins with no sign, digit or '.'.
C18_HasNoMagnitude(c) ==
  /\ HasEnded(c, "_parseExpression")
  /\ arguments[c] # <<>>
  /\ arguments[c][1] \notin {"+", "-", "."} \cup {DigitChar(d) : d \in 0..9}

\* C18: when no magnitude is matched (the input begins with no sign, digit
\* or '.'), matchExpression parses a term from the whole input: when the
\* term parses, the result has the magnitude NaN and the vector of the term,
\* not negated and with nothing added under the key 10, and when it does
\* not, the expression fails.
C18_TermOfWholeInput ==
  \A c \in Callers :
    C18_HasNoMagnitude(c)
      => LET termResult == _parseTerm(arguments[c])
             expressionResult == outcome[c].value
         IN  /\ ~IsThrown(expressionResult)
             /\ termResult.success
                  => /\ expressionResult.success
                     /\ expressionResult.consumed = termResult.consumed
                     /\ expressionResult.result.magnitude = NaN
                     /\ expressionResult.result.exponents = termResult.result.exponents
             /\ ~termResult.success => ~expressionResult.success

\* The part of C18 that holds: when the term parses from the whole input.
C18_WhenTermParses ==
  \A c \in Callers :
    C18_HasNoMagnitude(c) /\ _parseTerm(arguments[c]).success
      => /\ ~IsThrown(outcome[c].value)
         /\ outcome[c].value.success
         /\ outcome[c].value.result.magnitude = NaN
         /\ outcome[c].value.result.exponents = _parseTerm(arguments[c]).result.exponents

\* The length of the run of signs that string begins with.
SignRun(string) ==
  IF \A j \in 1..Len(string) : string[j] \in {"+", "-"} THEN Len(string)
  ELSE (CHOOSE j \in 1..Len(string) :
          /\ string[j] \notin {"+", "-"}
          /\ \A l \in 1..(j - 1) : string[l] \in {"+", "-"}) - 1

\* The numeral that body begins with: digits '.' digits, digits alone, or
\* '.' digits; its digits before the '.', its digits after it, and its
\* length, 0 when body begins with no numeral.
NumeralAt(body) ==
  LET whole == DigitRun(body)
      fraction == IF CharAt(body, whole) = <<".">>
                  THEN DigitRun(Substring(body, whole + 1))
                  ELSE 0
  IN  [whole |-> Prefix(body, whole),
       fraction |-> SubSeq(body, whole + 2, whole + 1 + fraction),
       length |-> IF fraction > 0 THEN whole + 1 + fraction ELSE whole]

\* The number that the signs and the numeral denote.
SignedValue(signs, numeral) ==
  LET digits == numeral.whole \o numeral.fraction
      value == DecimalToNumber(FALSE, [j \in 1..Len(digits) |-> DigitValue(digits[j])],
                               Len(numeral.fraction))
  IN  IF Cardinality({j \in 1..Len(signs) : signs[j] = "-"}) % 2 = 1
      THEN Negate(value)
      ELSE value

\* C19: matchDecimal succeeds exactly on the inputs that begin with signs
\* '+' and '-', or none, followed by digits '.' digits, digits alone, or '.'
\* digits; it consumes the signs and that numeral and yields the number they
\* denote; it fails when the first character after the signs is a '.' that
\* no digit follows, and it never consumes a '.' that no digit follows.
C19_DecimalToken ==
  \A c \in Callers :
    HasEnded(c, "_parseDecimal")
      => LET string == arguments[c]
             signs == Prefix(string, SignRun(string))
             numeral == NumeralAt(Substring(string, Len(signs)))
             decimalResult == outcome[c].value
         IN  /\ decimalResult.success <=> numeral.length > 0
             /\ decimalResult.success
                  => /\ decimalResult.consumed = Prefix(string, Len(signs) + numeral.length)
                     /\ decimalResult.rest = Substring(string, Len(signs) + numeral.length)
                     /\ decimalResult.result = SignedValue(signs, numeral)

\* The part of C19 that holds: on the inputs where no '.' comes right after
\* the signs and the digits without a digit after it.
C19_WhenDotHasDigit ==
  \A c \in Callers :
    /\ HasEnded(c, "_parseDecimal")
    /\ LET body == Substring(arguments[c], SignRun(arguments[c]))
       IN  CharAt(body, DigitRun(body)) = <<".">> => NumeralAt(body).fraction # <<>>
    => LET string == arguments[c]
           signs == Prefix(string, SignRun(string))
           numeral == NumeralAt(Substring(string, Len(signs)))
           decimalResult == outcome[c].value
       IN  /\ decimalResult.success <=> numeral.length > 0
           /\ decimalResult.success
                => /\ decimalResult.consumed = Prefix(string, Len(signs) + numeral.length)
                   /\ decimalResult.rest = Substring(string, Len(signs) + numeral.length)
                   /\ decimalResult.result = SignedValue(signs, numeral)

\* The rules of the grammar below normalizeUnits.
GrammarRules ==
  {"_parseChar", "_parseDigits", "_parseInteger", "_parseDecimal", "_parseMagnitude",
   "_parseBase", "_parseFactor", "_parseTerm", "_parseExpression"}

\* The same with the rule of the digits after a '.'.
EveryRule == GrammarRules \cup {"_parseDotDigits"}

\* C20: no rule of the grammar (matchChar, matchDigits, matchInteger,
\* matchDecimal, matchMagnitude, matchBase, matchFactor, matchTerm,
\* matchExpression) raises an exception, whatever the string it is called
\* with, the empty string too: every call of a rule ends with a result.
C20_RulesNeverRaise ==
  \A c \in Callers :
    \A function \in GrammarRules :
      HasEnded(c, function) => ~IsThrown(outcome[c].value)

\* The part of C20 that holds: the rules other than _parseExpression end
\* with a result, and _parseExpression does on every string but the empty one.
C20_RulesButEmptyExpression ==
  \A c \in Callers :
    \A function \in GrammarRules :
      /\ HasEnded(c, function)
      /\ ~(function = "_parseExpression" /\ arguments[c] = <<>>)
      => /\ ~IsThrown(outcome[c].value)
         /\ outcome[c].value.success \in BOOLEAN

\* The string that the rule called by caller c was called with.
InputOf(c) ==
  IF outcome[c].function = "_parseChar" THEN arguments[c].string ELSE arguments[c]

\* The call of a rule of the grammar by caller c has ended with a failure.
HasFailed(c) ==
  /\ pc[c] = "done"
  /\ "function" \in DOMAIN outcome[c]
  /\ outcome[c].function \in EveryRule
  /\ ~IsThrown(outcome[c].value)
  /\ ~outcome[c].value.success

\* C21: for every rule of the grammar and every input, the consumed and the
\* rest of a failing outcome, one after the other, are the input of the call.
C21_FailureSplitsInput ==
  \A c \in Callers :
    HasFailed(c) => outcome[c].value.consumed \o outcome[c].value.rest = InputOf(c)

\* What the failing outcomes have instead: the rest is the whole input, and
\* the consumed is a part the input begins with.
C21_FailureRestIsInput ==
  \A c \in Callers :
    HasFailed(c) => outcome[c].value.rest = InputOf(c)

\* The call of caller c was of _parseExpression on string and has failed
\* with consumed.
C22_ExpressionFailedAt(c, string, consumed) ==
  /\ HasEnded(c, "_parseExpression")
  /\ arguments[c] = string
  /\ ~IsThrown(outcome[c].value)
  /\ ~outcome[c].value.success
  /\ outcome[c].value.consumed = consumed

RecursiveRules == {"_parseInteger", "_parseDecimal", "_parseTerm"}

\* The greatest number of calls of function nested in one another below a
\* call of it with string.
RECURSIVE Depth(_, _)
Depth(function, string) ==
  IF Nested(function, string) = {} THEN 0
  ELSE LET depths == {Depth(function, s) : s \in Nested(function, string)}
       IN  1 + CHOOSE d \in depths : \A e \in depths : e <= d

\* C23: every call a rule of the grammar makes of itself (after a sign in
\* matchInteger and matchDecimal, after '(' and after '*' or '/' in
\* matchTerm) is passed a string shorter than that of its caller, so the
\* calls nest at most as deep as the input is long and come to an end, those
\* below normalizeUnits too.
C23_RecursionShrinks ==
  \A c \in Callers :
    /\ \A function \in RecursiveRules :
         HasEnded(c, function)
           => /\ \A s \in Nested(function, arguments[c]) : Len(s) < Len(arguments[c])
              /\ Depth(function, arguments[c]) <= Len(arguments[c])
    /\ HasEnded(c, "normalizeUnits")
         => \A i \in 0..Len(StripSpaces(arguments[c])) :
              \A function \in RecursiveRules :
                LET string == Substring(StripSpaces(arguments[c]), i)
                IN  /\ \A s \in Nested(function, string) : Len(s) < Len(string)
                    /\ Depth(function, string) <= Len(arguments[c])

\* "(m*s" has been parsed by _parseTerm: "m*s" is passed to the call after
\* the parenthesis, "s" to the call after '*' below it.
C23_Witness ==
  \E c \in Callers :
    /\ HasEnded(c, "_parseTerm")
    /\ arguments[c] = <<"(", "m", "*", "s">>
    /\ Nested("_parseTerm", arguments[c]) = {<<"m", "*", "s">>}
    /\ Depth("_parseTerm", arguments[c]) = 2

\* The call of caller c was of _parseFactor on a base that parses, of
\* _parseTerm on a factor that parses, or of _parseExpression on a magnitude,
\* or none, and a term that parses.
C24_HasCombined(c) ==
  \/ HasEnded(c, "_parseFactor") /\ _parseBase(arguments[c]).success
  \/ /\ HasEnded(c, "_parseTerm")
     /\ CharAt(arguments[c], 0) # <<"(">>
     /\ _parseFactor(arguments[c]).success
  \/ /\ HasEnded(c, "_parseExpression")
     /\ ~IsThrown(outcome[c].value)
     /\ outcome[c].value.success
     /\ _parseMagnitude(arguments[c]).rest # <<>>

\* The vector of the nested result of the call of caller c as the nested
\* rule returned it, and as the call leaves it.
C24_NestedVectorBefore(c) ==
  CASE outcome[c].function = "_parseFactor" -> _parseBase(arguments[c]).result.exponents
    [] outcome[c].function = "_parseTerm" -> _parseFactor(arguments[c]).result.exponents
    [] outcome[c].function = "_parseExpression"
         -> _parseTerm(TermOfExpression(arguments[c])).result.exponents

C24_NestedVectorAfter(c) ==
  CASE outcome[c].function = "_parseFactor" -> BaseVectorAfterFactor(arguments[c])
    [] outcome[c].function = "_parseTerm" -> FactorVectorAfterTerm(arguments[c])
    [] outcome[c].function = "_parseExpression" -> TermVectorAfterExpression(arguments[c])

\* C24: no rule of the grammar changes a vector that the result of a nested
\* rule still refers to: when matchFactor, matchTerm or matchExpression has
\* combined the result of a nested base, factor or term into its own, the
\* vector of the nested result has the contents it had before.
C24_NestedVectorUnchanged ==
  \A c \in Callers :
    C24_HasCombined(c) => C24_NestedVectorAfter(c) = C24_NestedVectorBefore(c)

\* The call of a rule of the grammar by caller c has ended with a success.
HasSucceeded(c) ==
  /\ pc[c] = "done"
  /\ "function" \in DOMAIN outcome[c]
  /\ outcome[c].function \in EveryRule
  /\ ~IsThrown(outcome[c].value)
  /\ outcome[c].value.success

\* C25: for every rule of the grammar and every input, the consumed and the
\* rest of a successful outcome, one after the other, are the input of the
\* call, and the consumed is not empty.
C25_SuccessSplitsInput ==
  \A c \in Callers :
    HasSucceeded(c)
      => /\ outcome[c].value.consumed \o outcome[c].value.rest = InputOf(c)
         /\ outcome[c].value.consumed # <<>>

\* "-5.m" has been parsed by _parseDecimal: "-5." and "m".
C25_Witness ==
  \E c \in Callers :
    /\ HasSucceeded(c)
    /\ outcome[c].function = "_parseDecimal"
    /\ arguments[c] = <<"-", "5", ".", "m">>
    /\ outcome[c].value.consumed = <<"-", "5", ".">>
    /\ outcome[c].value.rest = <<"m">>

\* The call of caller c was of _parseTerm on a factor followed by '*' or
\* '/' and by what does not parse as a term.
C26_IsFactorAndOperator(c) ==
  /\ HasEnded(c, "_parseTerm")
  /\ CharAt(arguments[c], 0) # <<"(">>
  /\ _parseFactor(arguments[c]).success
  /\ CharAt(_parseFactor(arguments[c]).rest, 0) \in {<<"*">>, <<"/">>}
  /\ ~_parseTerm(Substring(_parseFactor(arguments[c]).rest, 1)).success

\* C26: when a factor is followed by '*' or '/' and what comes after the
\* operator does not parse as a term, matchTerm does not fail: it returns
\* the factor alone, a success, with the operator at the head of the rest;
\* normalizeUnits returns "5 m" for "5 m*" and for "5 m/q".
C26_FactorAloneBeforeOperator ==
  \A c \in Callers :
    /\ C26_IsFactorAndOperator(c)
         => /\ outcome[c].value.success
            /\ outcome[c].value = _parseFactor(arguments[c])
            /\ CharAt(outcome[c].value.rest, 0) \in {<<"*">>, <<"/">>}
    /\ HasEnded(c, "normalizeUnits") /\ arguments[c] \in {<<"5", " ", "m", "*">>, <<"5", " ", "m", "/", "q">>}
         => outcome[c].value = [kind |-> "returned", value |-> <<"5", " ", "m">>]

\* "m*q" has been parsed by _parseTerm: "m", with "*q" left.
C26_Witness ==
  \E c \in Callers :
    /\ C26_IsFactorAndOperator(c)
    /\ arguments[c] = <<"m", "*", "q">>
    /\ outcome[c].value.consumed = <<"m">>
    /\ outcome[c].value.rest = <<"*", "q">>

\* +1 for '*' and -1 for '/'.
SignOf(operator) == IF operator = <<"/">> THEN -1 ELSE 1

\* C27: chained operators of a term go with what is to their right: for
\* factors a, b and c the term a/b/c has the vector a - (b - c) and a/b*c
\* has a - (b + c), and likewise after '*'; normalizeUnits("5 m/s/s") has
\* the exponent 0 for s, not -2.
C27_RightAssociative ==
  \A c \in Callers :
    /\ HasEnded(c, "_parseTerm")
         => \A a \in ChainFactors, b \in ChainFactors, d \in ChainFactors,
               p \in {<<"*">>, <<"/">>}, q \in {<<"*">>, <<"/">>} :
              arguments[c] = a \o p \o b \o q \o d
                => LET va == _parseFactor(a).result.exponents
                       vb == _parseFactor(b).result.exponents
                       vd == _parseFactor(d).result.exponents
                       keys == DOMAIN va \cup DOMAIN vb \cup DOMAIN vd
                   IN  /\ outcome[c].value.success
                       /\ outcome[c].value.rest = <<>>
                       /\ DOMAIN outcome[c].value.result.exponents = keys
                       /\ \A key \in keys :
                            outcome[c].value.result.exponents[key]
                              = Get(va, key)
                                  + SignOf(p) * (Get(vb, key) + SignOf(q) * Get(vd, key))
    /\ HasEnded(c, "normalizeUnits") /\ arguments[c] = <<"5", " ", "m", "/", "s", "/", "s">>
         => outcome[c].value = [kind |-> "returned", value |-> <<"5", " ", "m", "*", "s", "^", "0">>]

\* "m/s/s" has been parsed by _parseTerm: 0 - (1 - 1) = 0 under s, 1 under m.
C27_Witness ==
  \E c \in Callers :
    /\ HasEnded(c, "_parseTerm")
    /\ arguments[c] = <<"m", "/", "s", "/", "s">>
    /\ outcome[c].value.result.exponents = (K10 :> 0) @@ (<<"m">> :> 1) @@ (<<"s">> :> 0)

\* C28: a term between parentheses is not continued: once _parseTerm has
\* matched '(' <term> ')' it returns the result of the term between them,
\* and whatever follows the ')' ('*', '/', '^' or anything else) is left in
\* rest; normalizeUnits("5 (m)*s") returns "5 m".
C28_ParenthesesEndTheTerm ==
  \A c \in Callers :
    /\ HasEnded(c, "_parseTerm")
         => \A term \in TermsBetweenParentheses, after \in AfterParentheses :
              arguments[c] = <<"(">> \o term \o <<")">> \o after
                => /\ outcome[c].value.success
                   /\ outcome[c].value.consumed = <<"(">> \o term \o <<")">>
                   /\ outcome[c].value.rest = after
                   /\ outcome[c].value.result = _parseTerm(term).result
                   /\ _parseTerm(term).rest = <<>>
    /\ HasEnded(c, "normalizeUnits") /\ arguments[c] = <<"5", " ", "(", "m", ")", "*", "s">>
         => outcome[c].value = [kind |-> "returned", value |-> <<"5", " ", "m">>]

\* "(m)*s" has been parsed by _parseTerm, "*s" is its rest.
C28_Witness ==
  \E c \in Callers :
    /\ HasEnded(c, "_parseTerm")
    /\ arguments[c] = <<"(", "m", ")", "*", "s">>
    /\ outcome[c].value.success
    /\ outcome[c].value.rest = <<"*", "s">>
    /\ outcome[c].value.result.exponents = (K10 :> 0) @@ (<<"m">> :> 1)

\* The '*' or '/' a string begins with, else nothing.
LeadingOperator(string) ==
  IF string # <<>> /\ string[1] \in {"*", "/"} THEN <<string[1]>> ELSE <<>>

\* The call c of _parseExpression has ended, on an argument that begins with
\* a magnitude.
C29_HasMagnitude(c) ==
  /\ HasEnded(c, "_parseExpression")
  /\ _parseMagnitude(arguments[c]).success

\* C29: the magnitude alone is an expression only when it is the whole
\* input: _parseExpression then succeeds with the significand and the vector
\* {10: exponent}. When anything is left after the magnitude,
\* _parseExpression succeeds exactly when a term parses there, after one
\* '*' or '/' if there is one, and otherwise fails having consumed the
\* magnitude, the operator and what the term consumed. normalizeUnits
\* raises on "5 x" and on "5*" and returns "5" on "5".
C29_MagnitudeAloneIsWholeInput ==
  \A c \in Callers :
    /\ C29_HasMagnitude(c)
         => LET magnitude == _parseMagnitude(arguments[c])
                operator == LeadingOperator(magnitude.rest)
                term == _parseTerm(SubSeq(magnitude.rest, Len(operator) + 1,
                                          Len(magnitude.rest)))
            IN  IF magnitude.rest = <<>>
                THEN /\ outcome[c].value.success
                     /\ outcome[c].value.consumed = arguments[c]
                     /\ outcome[c].value.result
                          = [magnitude |-> magnitude.result.significand,
                             exponents |-> (K10 :> magnitude.result.exponent)]
                ELSE /\ outcome[c].value.success = term.success
                     /\ outcome[c].value.consumed
                          = magnitude.consumed \o operator \o term.consumed
                     /\ ~term.success => outcome[c].value.rest = arguments[c]
    /\ HasEnded(c, "normalizeUnits") /\ arguments[c] \in {<<"5", " ", "x">>, <<"5", "*">>}
         => outcome[c].value.kind = "threw"
    /\ HasEnded(c, "normalizeUnits") /\ arguments[c] = <<"5">>
         => outcome[c].value = [kind |-> "returned", value |-> <<"5">>]

\* _parseExpression has failed on "5*", having consumed "5*".
C29_Witness ==
  \E c \in Callers :
    /\ C29_HasMagnitude(c)
    /\ arguments[c] = <<"5", "*">>
    /\ ~outcome[c].value.success
    /\ outcome[c].value.consumed = <<"5", "*">>

\* _parseExpression has succeeded on "5".
C29_WitnessMagnitudeAlone ==
  \E c \in Callers :
    /\ C29_HasMagnitude(c)
    /\ arguments[c] = <<"5">>
    /\ outcome[c].value.success

\* The call c of normalizeUnits has ended, on an argument that begins with a
\* magnitude and has none of what the tables of the two copies differ in:
\* the per-units ppt and ppq, and the letter of the prefix 'a'.
C30_IsOnBothTables(c) ==
  /\ HasEnded(c, "normalizeUnits")
  /\ _parseMagnitude(StripSpaces(arguments[c])).success
  /\ ~Contains(arguments[c], <<"p", "p", "t">>)
  /\ ~Contains(arguments[c], <<"p", "p", "q">>)
  /\ ~Contains(arguments[c], <<"a">>)

\* _normalizeUnits of src/SIParser.ts and of src/unnamed/part_000 give the
\* same on the string: the same failure and consumed, or the same success,
\* magnitude and units.
C30_SameInBothCopies(string) ==
  LET original == _normalizeUnits(string)
      copy == _normalizeUnits_part_000(string)
  IN  /\ ~IsThrown(original)
      /\ original.success = copy.success
      /\ original.consumed = copy.consumed
      /\ original.success => original.result = copy.result

\* C30: the two copies of the normalizer agree on every input that begins
\* with a magnitude and uses only what both tables have: both fail with the
\* same consumed, or both succeed with the same magnitude and units.
C30_CopiesAgree ==
  \A c \in Callers :
    C30_IsOnBothTables(c) => C30_SameInBothCopies(arguments[c])

\* C30, but for a magnitude with a power of ten followed by '/', and for a
\* significand that is not a number.
C30_CopiesAgreeButAfterSlash ==
  \A c \in Callers :
    C30_IsOnBothTables(c)
      => LET magnitude == _parseMagnitude(StripSpaces(arguments[c]))
         IN  \/ magnitude.result.significand.nan
             \/ /\ LeadingOperator(magnitude.rest) = <<"/">>
                /\ magnitude.result.exponent # 0
             \/ C30_SameInBothCopies(arguments[c])

\* Both copies have normalized "5 km/s", to the same.
C30_WitnessAgree ==
  \E c \in Callers :
    /\ C30_IsOnBothTables(c)
    /\ arguments[c] = <<"5", " ", "k", "m", "/", "s">>
    /\ _normalizeUnits_part_000(arguments[c]).result
         = [magnitude |-> <<"5", "*", "1", "0", "^", "3">>, units |-> <<"m", "*", "s", "^", "-", "1">>]

====
